---- MODULE Spec2Model ----
(***************************************************************************)
(* A model of the agent-orchestration core of backend/src/agents:          *)
(*   - the JSON helpers (clean_json_response, json.loads) on token texts,  *)
(*   - RouterAgent.run (classification, confidence gate, delegation,       *)
(*     validation, refinement),                                            *)
(*   - ParallelAgent._run_parallel (fan-out, join, integration),           *)
(*   - PlanningAgent.achat/run (plan construction, step loop, summary)     *)
(*     under the retry_on_error wrapper.                                   *)
(*   - on their own: _classify_request, _execute_tool, the tenacity        *)
(*     policies, astream_chat, the registry, the ids derived from names,   *)
(*     the system prompt of a shared BaseLLM, and ChatHistory.add.         *)
(*                                                                         *)
(* Numbers the code keeps as floats in [0,1] (confidence, score,           *)
(* validation_threshold) are kept in hundredths: 0.6 is 60, 0.75 is 75.    *)
(*                                                                         *)
(* A text returned by the LLM capability is a sequence of tokens:          *)
(*   "FJ" the marker ```json      "F" the marker ```                       *)
(*   "L"  the character {         "R" the character }                      *)
(*   "B"  a well-formed list of JSON members (its decoded value is the     *)
(*        reply's body)           "P" prose, not JSON                      *)
(***************************************************************************)
EXTENDS Integers, Sequences, FiniteSets, TLC

VARIABLES
    agent_registry,     \* BaseMultiAgent.agent_registry: ordered dict, a sequence of agents with distinct ids
    \* ---- RouterAgent.run
    r_pc,               \* position of the run coroutine
    r_query,            \* query
    r_verbose,          \* verbose
    r_selected,         \* selected_agent: an agent id, or NoAgent
    r_confidence,       \* confidence, in hundredths
    r_note,             \* reasoning returned by _classify_request: which branch produced it
    r_class_out,        \* outcome of the classification call
    r_direct,           \* the direct LLM call of the fallback path: prompt and outcome
    r_agent_out,        \* outcome of selected_agent.achat
    r_validation,       \* validation_result
    r_refine_out,       \* outcome of the refinement LLM call, and the value _refine_response returned
    r_answer,           \* value run returned
    r_trace,            \* calls made by the run, in order
    \* ---- RouterAgent._validate_response on its own
    v_pc,
    v_out,              \* outcome of the judge call: the reply text and what its members decode to
    v_result,           \* the validation_result returned, once v_pc is "returned"
    \* ---- ParallelAgent._run_parallel
    p_pc,
    p_query,
    p_history,
    p_tasks,            \* tasks: one record per created task
    p_next,             \* index of the task the join loop awaits next
    p_results,          \* results dict: ordered sequence of <<name, value>>
    p_direct,
    p_integration,      \* what the integration pass was given and returned
    p_answer,
    p_trace,
    \* ---- PlanningAgent.achat / run
    tools_dict,         \* BaseAgent.tools_dict: names of the registered tools
    pl_pc,
    pl_max_steps,       \* max_steps
    pl_attempt,         \* attempt number of run under retry_on_error
    pl_plan_attempt,    \* attempt number of _get_initial_plan under retry_on_error
    pl_plan_data,       \* plan_data["steps"] the plan was built from, until the loop starts
    pl_plan,            \* plan.steps
    pl_step,            \* step_num of the loop
    pl_executed,        \* the steps begun in this attempt, in order, each "begun" or "completed"
    pl_results,         \* results
    pl_failed,          \* the error of the first required-tool step that raised in this call
    pl_after_fail,      \* TRUE once an LLM or tool call was made after that error
    pl_out,             \* what achat gave its caller
    pl_trace,           \* the lifecycle hooks and the summary call, in order
    \* ---- RouterAgent._classify_request on its own
    c_pc,
    c_out,              \* outcome of the classification call
    c_result,           \* the (agent, confidence, note) returned, once c_pc is "returned"
    c_calls,            \* the calls of llm.achat made by _classify_request
    \* ---- BaseAgent._execute_tool on its own
    t_pc,
    t_name,             \* tool_name
    t_required,         \* requires_tool
    t_args,             \* outcome of the LLM call that generates the arguments
    t_tool,             \* outcome of tool.acall
    t_result,           \* how _execute_tool ended: nothing returned, a value, or an exception raised
    \* ---- a call of an operation decorated with a tenacity policy
    w_pc,
    w_op,               \* the policy, and the operation it wraps
    w_attempt,          \* attempt_number
    w_log,              \* how each attempt made so far ended, in order
    w_waits,            \* the sleeps made between attempts, in seconds
    w_result,           \* how the decorated call ended for its caller
    \* ---- astream_chat of an agent
    s_pc,
    s_agent,            \* the class whose astream_chat is called
    s_answer,           \* response / result: the string run returned, a sequence of characters
    s_i,                \* i of the chunk loop
    s_chunks,           \* the chunks yielded so far, in order
    s_events,           \* per chunk, in order: its on_llm_new_token call and its yield
    s_out,              \* how the call ended for its consumer
    s_trace,            \* the hooks fired and the run made by the call, in order
    \* ---- the calls of _register_agent and _unregister_agent made so far
    h_last,             \* for each id: the set of the agent last registered under it and not unregistered since
    \* ---- agents constructed without an explicit id and registered
    n_names,            \* options.name of each agent constructed so far, in order
    \* ---- agents constructed on shared LLM capabilities
    llm_system_prompt,  \* BaseLLM.system_prompt of each LLM capability
    b_agents,           \* the agents constructed so far: the llm and system_prompt given, and self.system_prompt
    b_messages,         \* per agent, the messages _prepare_messages built for its last LLM call
    \* ---- a ChatHistory
    ch_messages,        \* self.messages
    ch_max_length,      \* self.max_length
    ch_appended,        \* self.messages of the last add after its append, before the cut
    ch_adds             \* the calls of add made so far

rvars == << r_pc, r_query, r_verbose, r_selected, r_confidence, r_note, r_class_out, r_direct,
            r_agent_out, r_validation, r_refine_out, r_answer, r_trace >>
pvars == << p_pc, p_query, p_history, p_tasks, p_next, p_results, p_direct,
            p_integration, p_answer, p_trace >>
plvars == << tools_dict, pl_pc, pl_max_steps, pl_attempt, pl_plan_attempt, pl_plan_data,
             pl_plan, pl_step, pl_executed, pl_results, pl_failed,
             pl_after_fail, pl_out, pl_trace >>
vvars == << v_pc, v_out, v_result >>
cvars == << c_pc, c_out, c_result, c_calls >>
tvars == << t_pc, t_name, t_required, t_args, t_tool, t_result >>
wvars == << w_pc, w_op, w_attempt, w_log, w_waits, w_result >>
svars == << s_pc, s_agent, s_answer, s_i, s_chunks, s_events, s_out, s_trace >>
nvars == << n_names >>
lvars == << llm_system_prompt, b_agents, b_messages >>
chvars == << ch_messages, ch_max_length, ch_appended, ch_adds >>
ovars == << nvars, lvars, chvars >>
hvars == << cvars, tvars, wvars, svars, h_last, ovars >>
vars == << agent_registry, rvars, vvars, pvars, plvars, hvars >>
nonRouter == << agent_registry, vvars, pvars, plvars, hvars >>
nonValidate == << agent_registry, rvars, pvars, plvars, hvars >>
nonParallel == << agent_registry, rvars, vvars, plvars, hvars >>
nonPlanning == << agent_registry, rvars, vvars, pvars, hvars >>
nonClassify == << agent_registry, rvars, vvars, pvars, plvars, tvars, wvars, svars,
                 h_last, ovars >>
nonRetry == << agent_registry, rvars, vvars, pvars, plvars, cvars, tvars, svars,
                 h_last, ovars >>
nonStream == << agent_registry, rvars, vvars, pvars, plvars, cvars, tvars, wvars,
                 h_last, ovars >>
nonNames == << rvars, vvars, pvars, plvars, cvars, tvars, wvars, svars, h_last, lvars,
              chvars >>
nonHistory == << agent_registry, rvars, vvars, pvars, plvars, cvars, tvars, wvars, svars,
                h_last, nvars, lvars >>
nonLlm == << agent_registry, rvars, vvars, pvars, plvars, cvars, tvars, wvars, svars, h_last,
            nvars, chvars >>
nonTool == << agent_registry, rvars, vvars, pvars, pl_pc, pl_max_steps, pl_attempt,
             pl_plan_attempt, pl_plan_data, pl_plan, pl_step, pl_executed, pl_results,
             pl_failed, pl_after_fail, pl_out, pl_trace, cvars, wvars, svars, h_last, ovars >>

(***************************************************************************)
(* Bounds                                                                  *)
(***************************************************************************)
MaxAgents == 2          \* agents in a registry, and distinct agent ids
MaxReplyLen == 4        \* tokens in an LLM reply that is parsed as JSON
MaxPlanLen == 3         \* steps in the plan data the LLM returns
MaxAnswerLen == 11      \* characters in an answer that is streamed
MaxNameLen == 2         \* characters in the name an agent is constructed with
MaxHistory == 3         \* max_length of a ChatHistory, and messages it is constructed with
MaxAdds == 3            \* calls of add on one ChatHistory

(***************************************************************************)
(* Values                                                                  *)
(***************************************************************************)
AgentIds == 1..MaxAgents
UnknownId == MaxAgents + 1              \* an id the classifier may name that no agent carries
AgentNames == {"billing", "support"}
Agents == [id : AgentIds, name : AgentNames]
NoAgent == 0                            \* None where an agent id is expected
Queries == {"q1", "q2"}
Histories == {"h0", "h1"}
PlainTexts == {"t1", "t2"}              \* what the LLM capability answers to a plain prompt
AgentTexts == {"r1", "r2"}              \* what a registered agent's achat answers
ErrMsgs == {"e1", "e2"}                 \* str(e) of an exception raised by a collaborator

Ok(v) == [ok |-> TRUE, val |-> v]
Raised(m) == [ok |-> FALSE, val |-> m]
NotCalled == [ok |-> FALSE, val |-> "not called"]

DistinctIds(s) == \A i, j \in 1..Len(s) : i # j => s[i].id # s[j].id
Registries == { s \in UNION { [1..n -> Agents] : n \in 0..MaxAgents } : DistinctIds(s) }

RegistryHas(reg, id) == \E i \in 1..Len(reg) : reg[i].id = id
Count(trace, ev) == Cardinality({ i \in 1..Len(trace) : trace[i] = ev })

(***************************************************************************)
(* JSON helpers                                                            *)
(***************************************************************************)
Tokens == {"FJ", "F", "L", "R", "B", "P"}
ReplyTexts == UNION { [1..n -> Tokens] : n \in 0..MaxReplyLen }
HasB(text) == \E i \in 1..Len(text) : text[i] = "B"

\* A decoded JSON object: the keys present and their values (a value of an
\* absent key is never read).
EmptyDict == [keys |-> {}]
Get(d, k, default) == IF k \in d.keys THEN d[k] ELSE default

\* str.find / str.rfind, 0 standing for Python's -1
Find(s, t) ==
    IF \E i \in 1..Len(s) : s[i] = t
    THEN CHOOSE i \in 1..Len(s) : s[i] = t /\ \A j \in 1..(i - 1) : s[j] # t
    ELSE 0
RFind(s, t) ==
    IF \E i \in 1..Len(s) : s[i] = t
    THEN CHOOSE i \in 1..Len(s) : s[i] = t /\ \A j \in (i + 1)..Len(s) : s[j] # t
    ELSE 0

NotFence(t) == t \notin {"FJ", "F"}

\* clean_json_response: drop the code-block markers, keep first '{' .. last '}'
clean_json_response(response) ==
    LET stripped == SelectSeq(response, NotFence)
        start == Find(stripped, "L")
        end == RFind(stripped, "R")
    IN  IF start = 0 \/ end = 0
        THEN [ok |-> FALSE, val |-> << >>, err |-> "ValueError"]
        ELSE [ok |-> TRUE, val |-> SubSeq(stripped, start, end), err |-> ""]

\* json.loads of a token text whose member list decodes to body
json_loads(text, body) ==
    IF text = << "L", "R" >> THEN [ok |-> TRUE, dict |-> EmptyDict]
    ELSE IF text = << "L", "B", "R" >> THEN [ok |-> TRUE, dict |-> body]
    ELSE [ok |-> FALSE, dict |-> EmptyDict]

\* Outcomes of an LLM call whose reply the caller parses as JSON
LLMRaise(m) == [ok |-> FALSE, text |-> << >>, body |-> EmptyDict, err |-> m]
LLMReply(t, b) == [ok |-> TRUE, text |-> t, body |-> b, err |-> ""]
JsonOutcomes(Bodies) ==
    { LLMRaise(m) : m \in ErrMsgs }
    \cup { LLMReply(t, b) : t \in { x \in ReplyTexts : HasB(x) }, b \in Bodies }
    \cup { LLMReply(t, EmptyDict) : t \in { x \in ReplyTexts : ~HasB(x) } }
NoReply == LLMRaise("not called")

\* The reply shapes a run is driven with: a bare object, a fenced object, an
\* object inside prose, an empty object, prose alone
ShapeTexts == { << "L", "B", "R" >>, << "FJ", "L", "B", "R", "F" >>, << "P", "L", "B", "R" >>,
                << "L", "R" >>, << "P" >> }
ShapeOutcomes(Bodies) ==
    { LLMRaise("e1") }
    \cup { LLMReply(t, b) : t \in { x \in ShapeTexts : HasB(x) }, b \in Bodies }
    \cup { LLMReply(t, EmptyDict) : t \in { x \in ShapeTexts : ~HasB(x) } }

\* Outcomes of a call whose reply is used as plain text
\* every reply shorter than MaxReplyLen, and the shapes above
ShortOutcomes(Bodies) ==
    LET texts == { x \in ReplyTexts : Len(x) < MaxReplyLen } \cup ShapeTexts
    IN  { LLMRaise(m) : m \in ErrMsgs }
        \cup { LLMReply(t, b) : t \in { x \in texts : HasB(x) }, b \in Bodies }
        \cup { LLMReply(t, EmptyDict) : t \in { x \in texts : ~HasB(x) } }
PlainOutcomes == { Ok(t) : t \in PlainTexts } \cup { Raised(m) : m \in ErrMsgs }
AgentOutcomes == { Ok(t) : t \in AgentTexts } \cup { Raised(m) : m \in ErrMsgs }

(***************************************************************************)
(* RouterAgent                                                             *)
(***************************************************************************)
ConfidenceGate == 60
FallbackConfidence == 50
ValidationThreshold == 70
DefaultScore == 75

Confidences == {0, 59, 60, 90}
ClassKeys == {"selected_agent", "confidence", "reasoning"}
ClassBodies ==
    { [keys |-> ClassKeys, selected_agent |-> s, confidence |-> c] :
        s \in AgentIds \cup {UnknownId}, c \in Confidences }
    \cup { [keys |-> ClassKeys \ {"confidence"}, selected_agent |-> 1, confidence |-> 0] }

Scores == {69, 70, 90}
VerdictKeys == {"is_valid", "score", "reasoning", "needs_refinement", "refinement_suggestions"}
Verdict(k, v, s, n, why) ==
    [keys |-> k, is_valid |-> v, score |-> s, needs_refinement |-> n, reasoning |-> why]
JudgeBodies ==
    { Verdict(VerdictKeys, v, s, n, "judge") : v \in BOOLEAN, s \in Scores, n \in BOOLEAN }
    \cup { Verdict(VerdictKeys \ {"score"}, FALSE, 0, TRUE, "judge"),
           Verdict(VerdictKeys \ {"needs_refinement"}, FALSE, 69, FALSE, "judge") }
NoVerdict == Verdict({}, FALSE, 0, FALSE, "none")

Apology == "I encountered an error while processing your request. Please try again or rephrase your question."
RefinementPrompt == "REFINEMENT_PROMPT"
DirectPrompt(query) == << "Answer this question: ", query >>
NoDirect == [called |-> FALSE, prompt |-> << >>, out |-> NotCalled]

\* _classify_request that returns the id the classifier named without looking
\* it up in the registry
ClassifyResultUnchecked(reg, out) ==
    LET default_agent == IF Len(reg) > 0 THEN reg[1].id ELSE NoAgent
        cleaned == clean_json_response(out.text)
        parsed == json_loads(cleaned.val, out.body)
        d == parsed.dict
    IN  IF ~out.ok \/ ~cleaned.ok \/ ~parsed.ok \/ ~(ClassKeys \subseteq d.keys)
        THEN [agent |-> default_agent, confidence |-> FallbackConfidence,
              note |-> "Error in classification"]
        ELSE [agent |-> d.selected_agent, confidence |-> d.confidence, note |-> "reasoning"]

\* _classify_request after the registry check: what it returns for an LLM outcome
ClassifyResult(reg, out) ==
    LET default_agent == IF Len(reg) > 0 THEN reg[1].id ELSE NoAgent
        cleaned == clean_json_response(out.text)
        parsed == json_loads(cleaned.val, out.body)
        d == parsed.dict
    IN  IF ~out.ok \/ ~cleaned.ok
        THEN [agent |-> default_agent, confidence |-> FallbackConfidence,
              note |-> "Exception in classification"]
        ELSE IF ~parsed.ok \/ ~(ClassKeys \subseteq d.keys)
        THEN [agent |-> default_agent, confidence |-> FallbackConfidence,
              note |-> "Error in classification"]
        ELSE IF RegistryHas(reg, d.selected_agent)
        THEN [agent |-> d.selected_agent, confidence |-> d.confidence,
              note |-> "reasoning"]
        ELSE [agent |-> default_agent, confidence |-> FallbackConfidence,
              note |-> "not found, using default"]

DefaultVerdict(why) == Verdict(VerdictKeys, TRUE, DefaultScore, FALSE, why)

\* _validate_response that trusts the judge's text as it came (no cleaning)
ValidateResponseRaw(out) ==
    LET parsed == json_loads(out.text, out.body)
    IN  IF ~out.ok THEN DefaultVerdict("Validation error")
        ELSE IF ~parsed.ok THEN DefaultVerdict("Failed to parse validation result")
        ELSE parsed.dict

\* _validate_response: the validation_result for an outcome of the judge call
ValidateResponse(out) ==
    LET cleaned == clean_json_response(out.text)
        parsed == json_loads(cleaned.val, out.body)
    IN  IF ~out.ok \/ ~cleaned.ok THEN DefaultVerdict("Validation error")
        ELSE IF ~parsed.ok THEN DefaultVerdict("Failed to parse validation result")
        ELSE parsed.dict

\* the condition of run's "Check if refinement is needed"
NeedsRefinement(v, threshold) ==
    Get(v, "needs_refinement", FALSE) /\ Get(v, "score", 100) < threshold

\* _output_parser of an agent without structured_output: the LLM's answer, or
\* the text it was given when the call raises
OutputParser(output, out) == IF out.ok THEN out.val ELSE output

\* _refine_response
RefineResponse(agent_response, out) == OutputParser(RefinementPrompt, out)

\* How run ends for its caller: a returned text, or an exception raised to it
Returned(t) == [raised |-> FALSE, text |-> t]
Escaped(m) == [raised |-> TRUE, text |-> m]
NoReturn == Returned("")

\* an outer handler that lets the exception through
RouterHandlerReraise(m) == Escaped(m)

\* run's outer "except Exception": the apology is returned, whatever the error
RouterHandler(m) == Returned(Apology)

Append2(trace, a, b) == Append(Append(trace, a), b)

NoRefinement == [out |-> NotCalled, val |-> ""]
RouterAt(pc) ==
    /\ r_pc = pc /\ r_query = "" /\ r_verbose = FALSE
    /\ r_selected = NoAgent /\ r_confidence = 0 /\ r_note = "" /\ r_class_out = NoReply
    /\ r_direct = NoDirect /\ r_agent_out = NotCalled
    /\ r_validation = NoVerdict /\ r_refine_out = NoRefinement /\ r_answer = NoReturn
    /\ r_trace = << >>

RouterIdle == RouterAt("idle")

\* run is entered: on_agent_start, then _classify_request is awaited
RouterStart ==
    /\ r_pc = "idle"
    /\ \E q \in Queries, v \in BOOLEAN : r_query' = q /\ r_verbose' = v
    /\ r_trace' = Append(r_trace, "on_agent_start")
    /\ r_pc' = "classify"
    /\ UNCHANGED << r_selected, r_confidence, r_note, r_direct, r_agent_out,
                    r_validation, r_refine_out, r_answer,
                    r_class_out >>
    /\ UNCHANGED nonRouter

\* _classify_request returns: without an LLM call on an empty registry
RouterClassify ==
    /\ r_pc = "classify"
    /\ IF Len(agent_registry) = 0
       THEN /\ r_selected' = NoAgent /\ r_confidence' = 0
            /\ r_note' = "No agents available"
            /\ r_class_out' = r_class_out
            /\ r_trace' = r_trace
       ELSE \E out \in ShapeOutcomes(ClassBodies) :
              LET c == ClassifyResult(agent_registry, out)
              IN  /\ r_selected' = c.agent /\ r_confidence' = c.confidence
                  /\ r_note' = c.note
                  /\ r_class_out' = out
                  /\ r_trace' = Append(r_trace, "classify_llm")
    /\ r_pc' = "route"
    /\ UNCHANGED << r_query, r_verbose, r_direct, r_agent_out, r_validation,
                    r_refine_out, r_answer >>
    /\ UNCHANGED nonRouter

\* a run that never takes the fallback
TakesFallbackNever(selected, confidence) == FALSE

\* the gate of run lowered to the confidence of the classification fallback
TakesFallbackBelowHalf(selected, confidence) ==
    selected = NoAgent \/ confidence < FallbackConfidence

\* the gate of run with <= for <
TakesFallbackLeq(selected, confidence) == selected = NoAgent \/ confidence <= ConfidenceGate

\* "if not selected_agent" and "if confidence < 0.6"
TakesFallback(selected, confidence) == selected = NoAgent \/ confidence < ConfidenceGate

\* the fallback branch: one llm.achat("Answer this question: " + query)
RouterFallback ==
    /\ r_pc = "route"
    /\ TakesFallback(r_selected, r_confidence)
    /\ \E out \in PlainOutcomes :
         /\ r_direct' = [called |-> TRUE, prompt |-> DirectPrompt(r_query), out |-> out]
         /\ r_answer' = IF out.ok THEN Returned(out.val) ELSE RouterHandler(out.val)
    /\ r_trace' = Append2(r_trace, "direct_llm", "on_agent_end")
    /\ r_pc' = "done"
    /\ UNCHANGED << r_query, r_verbose, r_selected, r_confidence, r_note, r_agent_out,
                    r_validation, r_refine_out,
                    r_class_out >>
    /\ UNCHANGED nonRouter

\* selected_agent.achat is awaited; an exception goes to the outer handler
RouterDelegate ==
    /\ r_pc = "route"
    /\ ~TakesFallback(r_selected, r_confidence)
    /\ \E out \in AgentOutcomes :
         /\ r_agent_out' = out
         /\ IF out.ok
            THEN /\ r_pc' = "validate" /\ r_answer' = r_answer
                 /\ r_trace' = Append(r_trace, "agent_achat")
            ELSE /\ r_pc' = "done" /\ r_answer' = RouterHandler(out.val)
                 /\ r_trace' = Append2(r_trace, "agent_achat", "on_agent_end")
    /\ UNCHANGED << r_query, r_verbose, r_selected, r_confidence, r_note, r_direct,
                    r_validation, r_refine_out,
                    r_class_out >>
    /\ UNCHANGED nonRouter

\* _validate_response is awaited
RouterValidate ==
    /\ r_pc = "validate"
    /\ \E out \in ShapeOutcomes(JudgeBodies) :
         r_validation' = ValidateResponse(out)
    /\ r_trace' = Append(r_trace, "validate_llm")
    /\ r_pc' = "decide"
    /\ UNCHANGED << r_query, r_verbose, r_selected, r_confidence, r_note, r_direct,
                    r_agent_out, r_refine_out, r_answer,
                    r_class_out >>
    /\ UNCHANGED nonRouter

\* after validation: the verbose log line reads validation_result['score'], then
\* the refinement check either awaits _refine_response or returns agent_response
RouterDecide ==
    /\ r_pc = "decide"
    /\ IF r_verbose /\ "score" \notin r_validation.keys
       THEN /\ r_pc' = "done" /\ r_answer' = RouterHandler("KeyError: 'score'")
            /\ r_trace' = Append(r_trace, "on_agent_end")
       ELSE IF NeedsRefinement(r_validation, ValidationThreshold)
       THEN /\ r_pc' = "refine" /\ r_answer' = r_answer /\ r_trace' = r_trace
       ELSE /\ r_pc' = "done" /\ r_answer' = Returned(r_agent_out.val)
            /\ r_trace' = Append(r_trace, "on_agent_end")
    /\ UNCHANGED << r_query, r_verbose, r_selected, r_confidence, r_note, r_direct,
                    r_agent_out, r_validation, r_refine_out,
                    r_class_out >>
    /\ UNCHANGED nonRouter

\* _refine_response returns and run returns its value
RouterRefine ==
    /\ r_pc = "refine"
    /\ \E out \in PlainOutcomes :
         /\ r_refine_out' = [out |-> out, val |-> RefineResponse(r_agent_out.val, out)]
         /\ r_answer' = Returned(RefineResponse(r_agent_out.val, out))
    /\ r_trace' = Append2(r_trace, "refine_llm", "on_agent_end")
    /\ r_pc' = "done"
    /\ UNCHANGED << r_query, r_verbose, r_selected, r_confidence, r_note, r_direct,
                    r_agent_out, r_validation,
                    r_class_out >>
    /\ UNCHANGED nonRouter

(***************************************************************************)
(* ParallelAgent                                                           *)
(***************************************************************************)
IntegrationPrompt == "INTEGRATION_PROMPT"
\* How _run_parallel ends for its caller: a returned text, the returned apology
\* "I encountered an error while processing your request in parallel mode. Error: "
\* + str(e), or an exception raised to it
Text(t) == [raised |-> FALSE, apology |-> FALSE, text |-> t]
ParallelApology(m) == [raised |-> FALSE, apology |-> TRUE, text |-> m]
NoAnswer == Text("")

\* an outer handler that lets the exception go to the caller
ParallelHandlerReraise(m) == [raised |-> TRUE, apology |-> FALSE, text |-> m]

\* _run_parallel's outer "except Exception"
ParallelHandler(m) == ParallelApology(m)

Value(t) == [prefix |-> "", text |-> t]
ErrorString(m) == [prefix |-> "Error: ", text |-> m]        \* f"Error: {str(e)}"

\* results[name] = value on an ordered dict
DictSet(d, name, value) ==
    IF \E i \in 1..Len(d) : d[i][1] = name
    THEN [ i \in 1..Len(d) |-> IF d[i][1] = name THEN << name, value >> ELSE d[i] ]
    ELSE Append(d, << name, value >>)
DictHas(d, name) == \E i \in 1..Len(d) : d[i][1] = name
DictGet(d, name) == (CHOOSE i \in 1..Len(d) : d[i][1] = name)
DictValue(d, name) == d[DictGet(d, name)][2]

NoIntegration == [called |-> FALSE, given |-> << >>, out |-> NotCalled]

ParallelAt(pc) ==
    /\ p_pc = pc /\ p_query = "" /\ p_history = ""
    /\ p_tasks = << >> /\ p_next = 1 /\ p_results = << >>
    /\ p_direct = NoDirect /\ p_integration = NoIntegration
    /\ p_answer = NoAnswer /\ p_trace = << >>

ParallelIdle == ParallelAt("idle")

\* the task-creation loop of _execute_parallel that stops after the first agent
CreateTasksFirstOnly(agents, query, history) ==
    [ i \in 1..(IF Len(agents) > 0 THEN 1 ELSE 0) |->
        [agent |-> agents[i].id, name |-> agents[i].name, query |-> query,
         history |-> history, state |-> "pending", seq |-> 0, out |-> NotCalled] ]

\* the task-creation loop of _execute_parallel: asyncio.create_task(agent.achat(...))
\* for every agent, in registry order
CreateTasks(agents, query, history) ==
    [ i \in 1..Len(agents) |->
        [agent |-> agents[i].id, name |-> agents[i].name, query |-> query,
         history |-> history, state |-> "pending", seq |-> 0, out |-> NotCalled] ]

\* _run_parallel is entered: on_agent_start; with agents, every task is created
\* before the first await
ParallelStart ==
    /\ p_pc = "idle"
    /\ \E q \in Queries, h \in Histories :
         /\ p_query' = q /\ p_history' = h
         /\ IF Len(agent_registry) = 0
            THEN /\ p_pc' = "direct" /\ p_tasks' = p_tasks
                 /\ p_trace' = Append(p_trace, "on_agent_start")
            ELSE /\ p_pc' = "join"
                 /\ p_tasks' = CreateTasks(agent_registry, q, h)
                 /\ p_trace' = Append2(p_trace, "on_agent_start", "create_tasks")
    /\ UNCHANGED << p_next, p_results, p_direct, p_integration, p_answer >>
    /\ UNCHANGED nonParallel

\* the empty-registry branch: one llm.achat("Answer this question: " + query)
ParallelDirect ==
    /\ p_pc = "direct"
    /\ \E out \in PlainOutcomes :
         /\ p_direct' = [called |-> TRUE, prompt |-> DirectPrompt(p_query), out |-> out]
         /\ p_answer' = IF out.ok THEN Text(out.val) ELSE ParallelHandler(out.val)
    /\ p_trace' = Append2(p_trace, "direct_llm", "on_agent_end")
    /\ p_pc' = "done"
    /\ UNCHANGED << p_query, p_history, p_tasks, p_next, p_results, p_integration >>
    /\ UNCHANGED nonParallel

\* a created task runs its agent's achat to its end, while the parent awaits
ParallelTaskResolve(i) ==
    /\ p_pc = "join"
    /\ i \in 1..Len(p_tasks)
    /\ p_tasks[i].state = "pending"
    /\ \E out \in AgentOutcomes :
         p_tasks' = [p_tasks EXCEPT ![i].state = "done", ![i].out = out,
                                    ![i].seq = 1 + Cardinality({ j \in 1..Len(p_tasks) :
                                                                 p_tasks[j].state = "done" })]
    /\ p_trace' = Append(p_trace, "agent_achat")
    /\ UNCHANGED << p_pc, p_query, p_history, p_next, p_results, p_direct,
                    p_integration, p_answer >>
    /\ UNCHANGED nonParallel

\* the entry recorded for an awaited task, an exception propagating instead
RecordedNoCatch(out) == Value(out.val)

\* the entry recorded for an awaited task: its result, or "Error: " + str(e)
Recorded(out) == IF out.ok THEN Value(out.val) ELSE ErrorString(out.val)

\* "result = await task" returns or raises for the next task of the join loop;
\* after the last one _execute_parallel returns
ParallelJoin ==
    /\ p_pc = "join"
    /\ p_next \in 1..Len(p_tasks)
    /\ p_tasks[p_next].state = "done"
    /\ p_results' = DictSet(p_results, p_tasks[p_next].name, Recorded(p_tasks[p_next].out))
    /\ p_next' = p_next + 1
    /\ p_pc' = IF p_next = Len(p_tasks) THEN "integrate" ELSE "join"
    /\ p_trace' = Append(p_trace, "await_task")
    /\ UNCHANGED << p_query, p_history, p_tasks, p_direct, p_integration, p_answer >>
    /\ UNCHANGED nonParallel

\* _integrate_results over the results dict, then on_agent_end
ParallelIntegrate ==
    /\ p_pc = "integrate"
    /\ \E out \in PlainOutcomes :
         /\ p_integration' = [called |-> TRUE, given |-> p_results, out |-> out]
         /\ p_answer' = Text(OutputParser(IntegrationPrompt, out))
    /\ p_trace' = Append2(p_trace, "integrate_llm", "on_agent_end")
    /\ p_pc' = "done"
    /\ UNCHANGED << p_query, p_history, p_tasks, p_next, p_results, p_direct >>
    /\ UNCHANGED nonParallel

(***************************************************************************)
(* PlanningAgent                                                           *)
(***************************************************************************)
MaxAttempts == 3            \* stop_after_attempt(3) of retry_on_error
DefaultMaxSteps == 3        \* max_steps of run and achat

NullTool == "null"
ToolChoices == { {}, {"calc"} }                 \* the tool maps an agent is built with
StepData ==
    { [requires_tool |-> TRUE, tool_name |-> t] : t \in {"calc", "ghost", NullTool} }
    \cup { [requires_tool |-> FALSE, tool_name |-> t] : t \in {"ghost", NullTool} }
\* the "steps" array of a plan reply; a step's description is its position in it
PlanSteps ==
    UNION { { [ i \in 1..n |-> [description |-> i, requires_tool |-> f[i].requires_tool,
                               tool_name |-> f[i].tool_name] ] : f \in [1..n -> StepData] }
            : n \in 0..MaxPlanLen }
PlanBodies == { [keys |-> {"steps"}, steps |-> st] : st \in PlanSteps }
PlanOutcomes == ShapeOutcomes(PlanBodies)

SummaryPrompt == "SUMMARY_PROMPT"
TypeError == "TypeError: exceptions must derive from BaseException"
ToolError == "tool error"
NoOut == [kind |-> "none", val |-> ""]

\* the filter with the requires_tool test left out: drops every step that
\* names an unregistered tool
KeepsStepAnyTool(step_data, tools) == step_data.tool_name \in tools

\* the loop body of _get_initial_plan: a step is skipped when it requires a
\* tool whose name is not in tools_dict
KeepsStep(step_data, tools) ==
    ~(step_data.requires_tool /\ step_data.tool_name \notin tools)

RECURSIVE FilterSteps(_, _)
FilterSteps(steps, tools) ==
    IF steps = << >> THEN << >>
    ELSE IF KeepsStep(Head(steps), tools)
         THEN << Head(steps) >> \o FilterSteps(Tail(steps), tools)
         ELSE FilterSteps(Tail(steps), tools)

\* _get_initial_plan, one attempt: the plan, or an exception
GetInitialPlan(out, tools) ==
    LET cleaned == clean_json_response(out.text)
        parsed == json_loads(cleaned.val, out.body)
    IN  IF ~out.ok \/ ~cleaned.ok \/ ~parsed.ok \/ "steps" \notin parsed.dict.keys
        THEN [ok |-> FALSE, data |-> << >>, steps |-> << >>]
        ELSE [ok |-> TRUE, data |-> parsed.dict.steps,
              steps |-> FilterSteps(parsed.dict.steps, tools)]

\* outcomes of awaiting _execute_tool's LLM call and tool call
ToolOutcomes == {"raise", "value", "none"}
\* _execute_tool: "none" for a None result, "raise" for a propagated error
ExecuteTool(tool_name, requires_tool, tools, o) ==
    IF ~requires_tool \/ tool_name = NullTool THEN "none"
    ELSE IF tool_name \notin tools THEN "none"
    ELSE o

PlanningIdle ==
    /\ pl_pc = "idle" /\ pl_max_steps = 0 /\ pl_attempt = 1 /\ pl_plan_attempt = 1
    /\ pl_plan_data = << >> /\ pl_plan = << >> /\ pl_step = 1
    /\ pl_executed = << >> /\ pl_results = << >> /\ pl_failed = ""
    /\ pl_after_fail = FALSE /\ pl_out = NoOut /\ pl_trace = << >>

\* achat is entered: on_agent_start, then run is awaited
PlanningStart ==
    /\ pl_pc = "idle"
    /\ \E m \in 0..DefaultMaxSteps : pl_max_steps' = m
    /\ pl_trace' = Append(pl_trace, "on_agent_start")
    /\ pl_pc' = "plan"
    /\ UNCHANGED << tools_dict, pl_attempt, pl_plan_attempt, pl_plan_data, pl_plan,
                    pl_step, pl_executed, pl_results, pl_failed, pl_after_fail, pl_out >>
    /\ UNCHANGED nonPlanning

\* an attempt of run ended with an exception: "raise <str>" makes it a
\* TypeError, which retry_on_error retries until the last attempt
RunFails ==
    /\ pl_plan_attempt' = 1 /\ pl_plan_data' = << >> /\ pl_plan' = << >>
    /\ pl_step' = 1 /\ pl_executed' = << >> /\ pl_results' = << >>
    /\ IF pl_attempt < MaxAttempts
       THEN /\ pl_attempt' = pl_attempt + 1 /\ pl_pc' = "plan"
            /\ pl_out' = pl_out /\ pl_trace' = pl_trace
       ELSE /\ pl_attempt' = pl_attempt /\ pl_pc' = "done"
            /\ pl_out' = [kind |-> "raised", val |-> TypeError]
            /\ pl_trace' = Append(pl_trace, "on_agent_end")

\* one attempt of _get_initial_plan: the LLM call and the construction of the plan
PlanningGetPlan ==
    /\ pl_pc = "plan"
    /\ pl_after_fail' = (pl_after_fail \/ pl_failed # "")
    /\ \E out \in PlanOutcomes :
         LET r == GetInitialPlan(out, tools_dict)
         IN  IF r.ok
             THEN /\ pl_plan_data' = r.data /\ pl_plan' = r.steps
                  /\ pl_pc' = "loop" /\ pl_step' = 1
                  /\ UNCHANGED << pl_attempt, pl_plan_attempt, pl_executed, pl_results,
                                  pl_out, pl_trace >>
             ELSE IF pl_plan_attempt < MaxAttempts
             THEN /\ pl_plan_attempt' = pl_plan_attempt + 1
                  /\ UNCHANGED << pl_pc, pl_attempt, pl_plan_data, pl_plan, pl_step,
                                  pl_executed, pl_results, pl_out, pl_trace >>
             ELSE RunFails
    /\ UNCHANGED << tools_dict, pl_max_steps, pl_failed >>
    /\ UNCHANGED nonPlanning

\* the loop test with the cap off by one
LoopContinuesOffByOne(step_num, steps, max_steps) ==
    step_num <= Len(steps) /\ ~(step_num > max_steps + 1)

\* "for step_num, step in enumerate(plan.steps, 1): if step_num > max_steps: break"
LoopContinues(step_num, steps, max_steps) ==
    step_num <= Len(steps) /\ ~(step_num > max_steps)

\* the loop goes on: the step's call (_execute_tool or llm.achat) is awaited
PlanningStepBegin ==
    /\ pl_pc = "loop"
    /\ LoopContinues(pl_step, pl_plan, pl_max_steps)
    /\ pl_executed' = Append(pl_executed,
                             [description |-> pl_plan[pl_step].description, state |-> "begun"])
    /\ pl_after_fail' = (pl_after_fail \/ pl_failed # "")
    /\ pl_plan_data' = << >>
    /\ pl_pc' = "step"
    /\ UNCHANGED << tools_dict, pl_max_steps, pl_attempt, pl_plan_attempt, pl_plan, pl_step,
                    pl_results, pl_failed, pl_out, pl_trace >>
    /\ UNCHANGED nonPlanning

StepCompleted == [pl_executed EXCEPT ![Len(pl_executed)].state = "completed"]

\* the awaited call of a tool step returns or raises
PlanningToolStepEnd ==
    /\ pl_pc = "step"
    /\ pl_plan[pl_step].requires_tool
    /\ \E o \in ToolOutcomes :
         LET res == ExecuteTool(pl_plan[pl_step].tool_name, TRUE, tools_dict, o)
         IN  IF res = "raise"
             THEN /\ pl_failed' = IF pl_failed = "" THEN ToolError ELSE pl_failed
                  /\ RunFails
             ELSE /\ pl_results' = IF res = "value"
                                   THEN Append(pl_results, [step |-> pl_plan[pl_step].description,
                                                            val |-> "tool result"])
                                   ELSE pl_results
                  /\ pl_executed' = StepCompleted
                  /\ pl_step' = pl_step + 1
                  /\ pl_pc' = "loop"
                  /\ UNCHANGED << pl_attempt, pl_plan_attempt, pl_plan_data, pl_plan,
                                  pl_failed, pl_out, pl_trace >>
    /\ UNCHANGED << tools_dict, pl_max_steps, pl_after_fail >>
    /\ UNCHANGED nonPlanning

\* the awaited llm.achat of a non-tool step returns, or raises and is swallowed
PlanningLLMStepEnd ==
    /\ pl_pc = "step"
    /\ ~pl_plan[pl_step].requires_tool
    /\ \E ok \in BOOLEAN :
         pl_results' = IF ok
                       THEN Append(pl_results, [step |-> pl_plan[pl_step].description,
                                                val |-> "llm answer"])
                       ELSE pl_results
    /\ pl_executed' = StepCompleted
    /\ pl_step' = pl_step + 1
    /\ pl_pc' = "loop"
    /\ UNCHANGED << tools_dict, pl_max_steps, pl_attempt, pl_plan_attempt, pl_plan_data,
                    pl_plan, pl_failed, pl_after_fail, pl_out, pl_trace >>
    /\ UNCHANGED nonPlanning

\* the loop is left (plan exhausted, or the cap reached): _generate_summary is awaited
PlanningLoopExit ==
    /\ pl_pc = "loop"
    /\ ~LoopContinues(pl_step, pl_plan, pl_max_steps)
    /\ pl_plan_data' = << >>
    /\ pl_pc' = "summary"
    /\ UNCHANGED << tools_dict, pl_max_steps, pl_attempt, pl_plan_attempt, pl_plan, pl_step,
                    pl_executed, pl_results, pl_failed, pl_after_fail, pl_out, pl_trace >>
    /\ UNCHANGED nonPlanning

\* _generate_summary returns (its _output_parser never raises); run and achat
\* return it, on_agent_end fires in achat's finally
PlanningSummary ==
    /\ pl_pc = "summary"
    /\ \E out \in PlainOutcomes :
         pl_out' = [kind |-> "text", val |-> OutputParser(SummaryPrompt, out)]
    /\ pl_after_fail' = (pl_after_fail \/ pl_failed # "")
    /\ pl_trace' = Append2(pl_trace, "summary_llm", "on_agent_end")
    /\ pl_pc' = "done"
    /\ UNCHANGED << tools_dict, pl_max_steps, pl_attempt, pl_plan_attempt, pl_plan_data,
                    pl_plan, pl_step, pl_executed, pl_results, pl_failed >>
    /\ UNCHANGED nonPlanning

(***************************************************************************)
(* _validate_response on every judge outcome                               *)
(***************************************************************************)
ValidateIdle == v_pc = "idle" /\ v_out = NoReply /\ v_result = NoVerdict

\* the judge call of _validate_response returns or raises, and
\* _validate_response returns its validation_result
ValidateCall ==
    /\ v_pc = "call"
    /\ v_result' = ValidateResponse(v_out)
    /\ v_pc' = "returned"
    /\ UNCHANGED v_out
    /\ UNCHANGED nonValidate

(***************************************************************************)
(* _classify_request on every outcome of the classification call           *)
(***************************************************************************)
NoClassification == [agent |-> NoAgent, confidence |-> 0, note |-> ""]
ClassifyIdle ==
    c_pc = "idle" /\ c_out = NoReply /\ c_result = NoClassification /\ c_calls = 0

\* _classify_request: the empty-registry return, or the classification call
\* returns or raises and the tuple is built
ClassifyCall ==
    /\ c_pc = "call"
    /\ c_result' = IF Len(agent_registry) = 0
                   THEN [agent |-> NoAgent, confidence |-> 0, note |-> "No agents available"]
                   ELSE ClassifyResult(agent_registry, c_out)
    /\ c_calls' = IF Len(agent_registry) = 0 THEN c_calls ELSE c_calls + 1
    /\ c_pc' = "returned"
    /\ UNCHANGED c_out
    /\ UNCHANGED nonClassify

(***************************************************************************)
(* _execute_tool, await by await                                           *)
(***************************************************************************)
ToolNames == {"calc", "ghost", NullTool}
ArgBodies == { [keys |-> {"arguments"}], [keys |-> {"parameters"}] }
ReturnsNone == [kind |-> "none", val |-> ""]
ReturnsValue(v) == [kind |-> "value", val |-> v]
Raises(m) == [kind |-> "raised", val |-> m]
ToolAt(pc) ==
    /\ t_pc = pc /\ t_args = NoReply /\ t_tool = NotCalled /\ t_result = ReturnsNone
ToolIdle == ToolAt("idle") /\ t_name = NullTool /\ t_required = FALSE

\* the two early returns of _execute_tool: a step that needs no tool or names
\* none, and a name tools_dict does not hold
ResolvesTool(tool_name, requires_tool, tools) ==
    requires_tool /\ tool_name # NullTool /\ tool_name \in tools

\* _execute_tool is entered: it returns None at once, or goes on to ask the
\* LLM for the arguments
ToolResolve ==
    /\ t_pc = "call"
    /\ t_pc' = IF ResolvesTool(t_name, t_required, tools_dict) THEN "args" ELSE "returned"
    /\ UNCHANGED << tools_dict, t_name, t_required, t_args, t_tool, t_result >>
    /\ UNCHANGED nonTool

\* the "except Exception" of _execute_tool: re-raise for a required tool
ToolHandler(requires_tool, m) == IF requires_tool THEN Raises(m) ELSE ReturnsNone

\* the arguments call returns or raises; the reply is cleaned, parsed, and
\* params["arguments"] is read
ToolArgs ==
    /\ t_pc = "args"
    /\ \E out \in ShortOutcomes(ArgBodies) :
         LET cleaned == clean_json_response(out.text)
             parsed == json_loads(cleaned.val, out.body)
             err == IF ~out.ok THEN out.err
                    ELSE IF ~cleaned.ok THEN "ValueError"
                    ELSE IF ~parsed.ok THEN "JSONDecodeError"
                    ELSE IF "arguments" \notin parsed.dict.keys THEN "KeyError"
                    ELSE ""
         IN  /\ t_args' = out
             /\ IF err # ""
                THEN t_pc' = "returned" /\ t_result' = ToolHandler(t_required, err)
                ELSE t_pc' = "acall" /\ t_result' = t_result
    /\ UNCHANGED << tools_dict, t_name, t_required, t_tool >>
    /\ UNCHANGED nonTool

\* tool.acall returns or raises
ToolAcall ==
    /\ t_pc = "acall"
    /\ \E out \in { Ok("tool result"), Raised(ToolError) } :
         /\ t_tool' = out
         /\ t_result' = IF out.ok THEN ReturnsValue(out.val)
                        ELSE ToolHandler(t_required, out.val)
    /\ t_pc' = "returned"
    /\ UNCHANGED << tools_dict, t_name, t_required, t_args >>
    /\ UNCHANGED nonTool

(***************************************************************************)
(* The tenacity policies, and _output_parser under the one it carries      *)
(***************************************************************************)
WaitChain == << 1, 2, 5 >>          \* wait_chain(wait_fixed(1), wait_fixed(2), wait_fixed(5))
JsonError == "JSONDecodeError"
OtherError == "ValueError"
Prompt == << "PROMPT" >>              \* the text _output_parser is given
BaseModelReply == LLMReply(<< "BaseModel" >>, EmptyDict)    \* program() returned a BaseModel

WrappedOps ==
    { [policy |-> "retry_on_error", body |-> "any", structured |-> FALSE],
      [policy |-> "retry_on_json_parse_error", body |-> "any", structured |-> FALSE] }
    \cup { [policy |-> "retry_on_json_parse_error", body |-> "_output_parser",
             structured |-> b] : b \in BOOLEAN }

\* the body of _output_parser for an outcome of program() or llm.achat: every
\* exception is caught inside it and final_output is returned
OutputParserBody(output, structured, out) ==
    IF ~out.ok THEN ReturnsValue(output)
    ELSE IF ~structured THEN ReturnsValue(out.text)
    ELSE IF out = BaseModelReply THEN ReturnsValue(<< "model_dump_json" >>)
    ELSE LET cleaned == clean_json_response(out.text)
             parsed == json_loads(cleaned.val, out.body)
         IN  IF cleaned.ok /\ parsed.ok THEN ReturnsValue(<< "json.dumps", cleaned.val >>)
             ELSE ReturnsValue(output)

\* how one attempt of the wrapped operation can end
AttemptOutcomes(op) ==
    IF op.body = "any"
    THEN { [reply |-> NoReply, res |-> ReturnsValue(v)] : v \in PlainTexts }
         \cup { [reply |-> NoReply, res |-> [kind |-> k, val |-> m]] :
                  k \in {JsonError, OtherError}, m \in ErrMsgs }
    ELSE { [reply |-> out, res |-> OutputParserBody(Prompt, op.structured, out)] :
             out \in ShortOutcomes({EmptyDict}) \cup {BaseModelReply} }

\* retry_if_exception_type of any policy
RetriesAlways(policy, res) == TRUE

\* retry=retry_if_exception_type(...) of the two policies
Retries(policy, res) ==
    IF policy = "retry_on_error" THEN TRUE ELSE res.kind = JsonError

\* stop_after_attempt(3) that lets one more attempt through
StopsLate(attempt) == attempt >= MaxAttempts + 1

\* stop=stop_after_attempt(3)
Stops(attempt) == attempt >= MaxAttempts

RetryAt(pc) ==
    /\ w_pc = pc /\ w_attempt = 1 /\ w_log = << >> /\ w_waits = << >>
    /\ w_result = ReturnsNone
RetryIdle == RetryAt("idle") /\ w_op = [policy |-> "", body |-> "", structured |-> FALSE]

\* one attempt of the wrapped operation ends: its value is returned, or the
\* policy decides between a sleep before the next attempt and re-raising
RetryAttempt ==
    /\ w_pc = "attempt"
    /\ \E o \in AttemptOutcomes(w_op) :
         /\ w_log' = Append(w_log, o)
         /\ IF o.res.kind = "value"
            THEN w_pc' = "done" /\ w_result' = o.res /\ w_waits' = w_waits
            ELSE IF Retries(w_op.policy, o.res) /\ ~Stops(w_attempt)
            THEN /\ w_pc' = "wait" /\ w_result' = w_result
                 /\ w_waits' = Append(w_waits, WaitChain[w_attempt])
            ELSE w_pc' = "done" /\ w_result' = o.res /\ w_waits' = w_waits
    /\ UNCHANGED << w_op, w_attempt >>
    /\ UNCHANGED nonRetry

\* the sleep between two attempts is over
RetryWait ==
    /\ w_pc = "wait"
    /\ w_attempt' = w_attempt + 1
    /\ w_pc' = "attempt"
    /\ UNCHANGED << w_op, w_log, w_waits, w_result >>
    /\ UNCHANGED nonRetry

(***************************************************************************)
(* astream_chat: the hooks, the run, the chunk loop                        *)
(***************************************************************************)
ChunkSize == 5
Strings == UNION { [1..n -> {"a", "b"}] : n \in 0..MaxAnswerLen }
StreamAt(pc) ==
    /\ s_pc = pc /\ s_answer = << >> /\ s_i = 0 /\ s_chunks = << >> /\ s_events = << >>
    /\ s_out = "" /\ s_trace = << >>
StreamIdle == StreamAt("idle") /\ s_agent = ""

\* a slice that starts one character late
SliceLate(str, a, b) ==
    SubSeq(str, a + 2, IF b < Len(str) THEN b ELSE Len(str))

\* the slice str[a:b] of Python, for 0 <= a <= b
Slice(str, a, b) ==
    SubSeq(str, a + 1, IF b < Len(str) THEN b ELSE Len(str))

\* "for i in range(i, len(str), k): yield str[i:i+k]" as the list of its chunks
RECURSIVE SplitFrom(_, _, _)
SplitFrom(str, i, k) ==
    IF i >= Len(str) THEN << >>
    ELSE << Slice(str, i, i + k) >> \o SplitFrom(str, i + k, k)

\* astream_chat is entered: RouterAgent and PlanningAgent fire on_agent_start
\* and await run; ParallelAgent's body is "pass"
StreamStart ==
    /\ s_pc = "call"
    /\ IF s_agent = "ParallelAgent"
       THEN s_pc' = "done" /\ s_out' = "None" /\ s_trace' = s_trace
       ELSE s_pc' = "run" /\ s_out' = s_out /\ s_trace' = Append(s_trace, "on_agent_start")
    /\ UNCHANGED << s_agent, s_answer, s_i, s_chunks, s_events >>
    /\ UNCHANGED nonStream

\* the awaited run is over. RouterAgent.run fires both hooks itself and always
\* returns; PlanningAgent.run fires none, and returns or raises
StreamRun ==
    /\ s_pc = "run"
    /\ \/ /\ s_agent = "RouterAgent"
          /\ \E a \in Strings : s_answer' = a
          /\ s_trace' = s_trace \o << "on_agent_start", "run", "on_agent_end" >>
          /\ s_pc' = "loop" /\ s_out' = s_out
       \/ /\ s_agent = "PlanningAgent"
          /\ \E a \in Strings : s_answer' = a
          /\ s_trace' = Append(s_trace, "run")
          /\ s_pc' = "loop" /\ s_out' = s_out
       \/ /\ s_agent = "PlanningAgent"
          /\ s_answer' = s_answer
          /\ s_trace' = Append2(s_trace, "run", "on_agent_end")
          /\ s_pc' = "done" /\ s_out' = "raised"
    /\ UNCHANGED << s_agent, s_i, s_chunks, s_events >>
    /\ UNCHANGED nonStream

\* what one turn of the chunk loop does with its chunk: RouterAgent hands it to
\* on_llm_new_token and yields it, PlanningAgent yields it
ChunkEvents(agent, chunk) ==
    IF agent = "RouterAgent"
    THEN << << "on_llm_new_token", chunk >>, << "yield", chunk >> >>
    ELSE << << "yield", chunk >> >>

\* one turn of the chunk loop: the next chunk is yielded
StreamYield ==
    /\ s_pc = "loop"
    /\ s_i < Len(s_answer)
    /\ s_chunks' = Append(s_chunks, Slice(s_answer, s_i, s_i + ChunkSize))
    /\ s_events' = s_events \o ChunkEvents(s_agent, Slice(s_answer, s_i, s_i + ChunkSize))
    /\ s_i' = s_i + ChunkSize
    /\ UNCHANGED << s_pc, s_agent, s_answer, s_out, s_trace >>
    /\ UNCHANGED nonStream

\* the range is exhausted: the finally clause fires on_agent_end
StreamEnd ==
    /\ s_pc = "loop"
    /\ s_i >= Len(s_answer)
    /\ s_trace' = Append(s_trace, "on_agent_end")
    /\ s_pc' = "done" /\ s_out' = "exhausted"
    /\ UNCHANGED << s_agent, s_answer, s_i, s_chunks, s_events >>
    /\ UNCHANGED nonStream

(***************************************************************************)
(* _register_agent and _unregister_agent                                   *)
(***************************************************************************)
RegistryIds == AgentIds \cup {UnknownId}
NoCalls == h_last = [id \in RegistryIds |-> {}]

\* a registration that always adds a new entry
RegisterAppend(reg, agent) == Append(reg, agent)

\* self.agent_registry[agent.id] = agent on the insertion-ordered dict
RegisterAgent(reg, agent) ==
    IF RegistryHas(reg, agent.id)
    THEN [ i \in 1..Len(reg) |-> IF reg[i].id = agent.id THEN agent ELSE reg[i] ]
    ELSE Append(reg, agent)

\* "if agent_id in self.agent_registry: del self.agent_registry[agent_id]"
UnregisterAgent(reg, agent_id) ==
    LET IsOther(a) == a.id # agent_id IN SelectSeq(reg, IsOther)

\* _register_agent(agent)
Register ==
    /\ \E agent \in Agents :
         /\ agent_registry' = RegisterAgent(agent_registry, agent)
         /\ h_last' = [h_last EXCEPT ![agent.id] = {agent}]
    /\ UNCHANGED << rvars, vvars, pvars, plvars, cvars, tvars, wvars, svars, ovars >>

\* _unregister_agent(agent_id)
Unregister ==
    /\ \E agent_id \in RegistryIds :
         /\ agent_registry' = UnregisterAgent(agent_registry, agent_id)
         /\ h_last' = [h_last EXCEPT ![agent_id] = {}]
    /\ UNCHANGED << rvars, vvars, pvars, plvars, cvars, tvars, wvars, svars, ovars >>

(***************************************************************************)
(* BaseAgent.__init__ without options.id, and the registration of the agent *)
(***************************************************************************)
\* an upper-case letter, a lower-case letter, a digit, a space
NameChars == {"A", "a", "1", " "}
NameTexts == UNION { [1..n -> NameChars] : n \in 1..MaxNameLen }
NamesIdle == n_names = << >>

\* re.sub(r"[^a-zA-Z\s-]", "", name) keeps letters, whitespace and hyphens
IsKept(c) == c \in {"A", "a", " ", "-"}
RECURSIVE DropSpaces(_)
DropSpaces(s) == IF s # << >> /\ Head(s) = " " THEN DropSpaces(Tail(s)) ELSE s
\* re.sub(r"\s+", "-", key): every run of whitespace becomes one hyphen
RECURSIVE HyphenateSpaces(_)
HyphenateSpaces(s) ==
    IF s = << >> THEN << >>
    ELSE IF Head(s) = " " THEN << "-" >> \o HyphenateSpaces(DropSpaces(Tail(s)))
    ELSE << Head(s) >> \o HyphenateSpaces(Tail(s))
Lower(c) == IF c = "A" THEN "a" ELSE c
\* _generate_id_from_name
GenerateIdFromName(name) ==
    LET key == HyphenateSpaces(SelectSeq(name, IsKept))
    IN  [ i \in 1..Len(key) |-> Lower(key[i]) ]

\* an agent is constructed from a name, with no id in its options, and
\* _register_agent is called with it
ConstructAndRegister ==
    /\ Len(n_names) < MaxAgents
    /\ \E name \in NameTexts :
         LET agent == [id |-> GenerateIdFromName(name), name |-> name]
         IN  /\ agent_registry' = RegisterAgent(agent_registry, agent)
             /\ n_names' = Append(n_names, name)
    /\ UNCHANGED nonNames

(***************************************************************************)
(* BaseAgent.__init__ on a shared BaseLLM, and the LLM calls of the agents  *)
(***************************************************************************)
LlmIds == {"llm1", "llm2"}
BasePrompt == << "base" >>              \* LLM_CONFIG.system_prompt
UserPrompts == {"pA", "pB"}             \* system_prompt a caller supplies; "" is the default
LlmIdle ==
    /\ llm_system_prompt = [l \in LlmIds |-> BasePrompt]
    /\ b_agents = << >> /\ b_messages = << >>

\* _set_system_prompt: f"Base prompt: {self.system_prompt}\nUser prompt:{system_prompt}"
SetSystemPrompt(current, system_prompt) ==
    << "Base prompt: " >> \o current \o << "\nUser prompt:", system_prompt >>

\* _prepare_messages without chat history
PrepareMessages(system_prompt, query) ==
    (IF system_prompt # << >>
     THEN << [role |-> "system", content |-> system_prompt],
             [role |-> "assistant",
              content |-> << "I understand and will follow these instructions." >>] >>
     ELSE << >>)
    \o << [role |-> "user", content |-> << query >>] >>

\* BaseAgent.__init__(llm, options, system_prompt)
ConstructAgent ==
    /\ Len(b_agents) < MaxAgents
    /\ \E l \in LlmIds, p \in UserPrompts \cup {""} :
         /\ llm_system_prompt' =
              IF p # "" THEN [llm_system_prompt EXCEPT ![l] = SetSystemPrompt(@, p)]
              ELSE llm_system_prompt
         /\ b_agents' = Append(b_agents, [llm |-> l, prompt |-> p,
                                          system_prompt |-> llm_system_prompt'[l]])
         /\ b_messages' = Append(b_messages, << >>)
    /\ UNCHANGED nonLlm

\* an agent awaits self.llm.achat(query)
AgentLlmCall(i) ==
    /\ i \in 1..Len(b_agents)
    /\ \E q \in Queries :
         b_messages' = [b_messages EXCEPT
                          ![i] = PrepareMessages(llm_system_prompt[b_agents[i].llm], q)]
    /\ UNCHANGED << llm_system_prompt, b_agents >>
    /\ UNCHANGED nonLlm

(***************************************************************************)
(* ChatHistory                                                             *)
(***************************************************************************)
ChatMessages == {"m1", "m2"}                \* ChatMessage(role=..., content=...)
HistoryIdle ==
    ch_messages = << >> /\ ch_max_length = 0 /\ ch_appended = << >> /\ ch_adds = 0

\* the slice list[start:] of Python, start of either sign
SliceFrom(list, start) ==
    LET from == IF start < 0
                THEN (IF Len(list) + start > 0 THEN Len(list) + start ELSE 0)
                ELSE (IF start < Len(list) THEN start ELSE Len(list))
    IN  SubSeq(list, from + 1, Len(list))

\* the cut of add: [self.messages[0]] + self.messages[-(self.max_length-1):]
Cut(messages, max_length) ==
    IF Len(messages) > max_length
    THEN << messages[1] >> \o SliceFrom(messages, -(max_length - 1))
    ELSE messages

\* add(role, content)
HistoryAdd ==
    /\ ch_adds < MaxAdds
    /\ \E m \in ChatMessages :
         /\ ch_appended' = Append(ch_messages, m)
         /\ ch_messages' = Cut(Append(ch_messages, m), ch_max_length)
    /\ ch_adds' = ch_adds + 1
    /\ UNCHANGED ch_max_length
    /\ UNCHANGED nonHistory

OthersIdle == NamesIdle /\ LlmIdle /\ HistoryIdle

HelpersIdle == ClassifyIdle /\ ToolIdle /\ RetryIdle /\ StreamIdle /\ NoCalls /\ OthersIdle

(***************************************************************************)
(* Specifications                                                          *)
(***************************************************************************)
SpecRouterInit ==
    /\ HelpersIdle
    /\ agent_registry \in Registries
    /\ RouterIdle /\ ValidateIdle /\ ParallelIdle /\ PlanningIdle
    /\ tools_dict = {}
SpecRouterNext ==
    \/ RouterStart \/ RouterClassify \/ RouterFallback \/ RouterDelegate
    \/ RouterValidate \/ RouterDecide \/ RouterRefine
SpecRouter == SpecRouterInit /\ [][SpecRouterNext]_vars

SpecValidateInit ==
    /\ HelpersIdle
    /\ agent_registry = << >>
    /\ RouterIdle /\ ParallelIdle /\ PlanningIdle
    /\ tools_dict = {}
    /\ v_pc = "call" /\ v_out \in JsonOutcomes(JudgeBodies) /\ v_result = NoVerdict
SpecValidateNext == ValidateCall
SpecValidate == SpecValidateInit /\ [][SpecValidateNext]_vars

SpecParallelInit ==
    /\ HelpersIdle
    /\ agent_registry \in Registries
    /\ RouterIdle /\ ValidateIdle /\ ParallelIdle /\ PlanningIdle
    /\ tools_dict = {}
SpecParallelNext ==
    \/ ParallelStart \/ ParallelDirect
    \/ (\E i \in 1..MaxAgents : ParallelTaskResolve(i))
    \/ ParallelJoin \/ ParallelIntegrate
SpecParallel == SpecParallelInit /\ [][SpecParallelNext]_vars

SpecPlanningInit ==
    /\ HelpersIdle
    /\ agent_registry = << >>
    /\ RouterIdle /\ ValidateIdle /\ ParallelIdle /\ PlanningIdle
    /\ tools_dict \in ToolChoices
SpecPlanningNext ==
    \/ PlanningStart \/ PlanningGetPlan \/ PlanningStepBegin \/ PlanningToolStepEnd
    \/ PlanningLLMStepEnd \/ PlanningLoopExit \/ PlanningSummary
SpecPlanning == SpecPlanningInit /\ [][SpecPlanningNext]_vars

\* Either strategy is called, on any registry: the other one stays unused
SpecMultiInit ==
    /\ HelpersIdle
    /\ agent_registry \in Registries
    /\ ValidateIdle /\ PlanningIdle /\ tools_dict = {}
    /\ \/ RouterIdle /\ ParallelAt("unused")
       \/ RouterAt("unused") /\ ParallelIdle
SpecMultiNext ==
    \/ RouterStart \/ RouterClassify \/ RouterFallback \/ RouterDelegate
    \/ RouterValidate \/ RouterDecide \/ RouterRefine
    \/ ParallelStart \/ ParallelDirect
    \/ (\E i \in 1..MaxAgents : ParallelTaskResolve(i))
    \/ ParallelJoin \/ ParallelIntegrate
SpecMulti == SpecMultiInit /\ [][SpecMultiNext]_vars

\* _classify_request is called on a registry whose agents carry one name
SpecClassifyInit ==
    /\ agent_registry \in { reg \in Registries : \A i \in 1..Len(reg) : reg[i].name = "billing" }
    /\ RouterIdle /\ ValidateIdle /\ ParallelIdle /\ PlanningIdle
    /\ ToolIdle /\ RetryIdle /\ StreamIdle /\ NoCalls /\ OthersIdle
    /\ tools_dict = {}
    /\ c_pc = "call" /\ c_out \in ShortOutcomes(ClassBodies) /\ c_result = NoClassification
    /\ c_calls = 0
SpecClassifyNext == ClassifyCall
SpecClassify == SpecClassifyInit /\ [][SpecClassifyNext]_vars

\* _execute_tool is called with any name and flag on either tool map
SpecToolInit ==
    /\ agent_registry = << >>
    /\ RouterIdle /\ ValidateIdle /\ ParallelIdle /\ PlanningIdle /\ ClassifyIdle
    /\ RetryIdle /\ StreamIdle /\ NoCalls /\ OthersIdle
    /\ tools_dict \in ToolChoices
    /\ ToolAt("call") /\ t_name \in ToolNames /\ t_required \in BOOLEAN
SpecToolNext == ToolResolve \/ ToolArgs \/ ToolAcall
SpecTool == SpecToolInit /\ [][SpecToolNext]_vars

\* a decorated operation is called
SpecRetryInit ==
    /\ agent_registry = << >>
    /\ RouterIdle /\ ValidateIdle /\ ParallelIdle /\ PlanningIdle /\ ClassifyIdle
    /\ ToolIdle /\ StreamIdle /\ NoCalls /\ OthersIdle
    /\ tools_dict = {}
    /\ RetryAt("attempt") /\ w_op \in WrappedOps
SpecRetryNext == RetryAttempt \/ RetryWait
SpecRetry == SpecRetryInit /\ [][SpecRetryNext]_vars

\* astream_chat of one of the three classes is called and consumed to its end
SpecStreamInit ==
    /\ agent_registry = << >>
    /\ RouterIdle /\ ValidateIdle /\ ParallelIdle /\ PlanningIdle /\ ClassifyIdle
    /\ ToolIdle /\ RetryIdle /\ NoCalls /\ OthersIdle
    /\ tools_dict = {}
    /\ StreamAt("call") /\ s_agent \in {"RouterAgent", "PlanningAgent", "ParallelAgent"}
SpecStreamNext == StreamStart \/ StreamRun \/ StreamYield \/ StreamEnd
SpecStream == SpecStreamInit /\ [][SpecStreamNext]_vars

\* a manager is constructed with an empty registry; agents are registered and
\* unregistered while no run is in flight, and either strategy is run
SpecRegistryInit ==
    /\ HelpersIdle
    /\ agent_registry = << >>
    /\ RouterIdle /\ ValidateIdle /\ ParallelIdle /\ PlanningIdle
    /\ tools_dict = {}
SpecRegistryNext ==
    \/ (r_pc = "idle" /\ p_pc = "idle" /\ (Register \/ Unregister))
    \/ (p_pc = "idle" /\ SpecRouterNext)
    \/ (r_pc = "idle" /\ SpecParallelNext)
SpecRegistry == SpecRegistryInit /\ [][SpecRegistryNext]_vars

\* agents are constructed from names and registered with a manager
SpecNamesInit ==
    /\ agent_registry = << >>
    /\ RouterIdle /\ ValidateIdle /\ ParallelIdle /\ PlanningIdle
    /\ HelpersIdle
    /\ tools_dict = {}
SpecNamesNext == ConstructAndRegister
SpecNames == SpecNamesInit /\ [][SpecNamesNext]_vars

\* agents are constructed on two LLM capabilities and make LLM calls
SpecLlmInit ==
    /\ agent_registry = << >>
    /\ RouterIdle /\ ValidateIdle /\ ParallelIdle /\ PlanningIdle
    /\ HelpersIdle
    /\ tools_dict = {}
SpecLlmNext == ConstructAgent \/ (\E i \in 1..MaxAgents : AgentLlmCall(i))
SpecLlm == SpecLlmInit /\ [][SpecLlmNext]_vars

\* a ChatHistory is constructed with a list of messages and a max_length of
\* at least 1, and messages are added to it
SpecHistoryInit ==
    /\ agent_registry = << >>
    /\ RouterIdle /\ ValidateIdle /\ ParallelIdle /\ PlanningIdle
    /\ ClassifyIdle /\ ToolIdle /\ RetryIdle /\ StreamIdle /\ NoCalls /\ NamesIdle /\ LlmIdle
    /\ tools_dict = {}
    /\ ch_messages \in UNION { [1..n -> ChatMessages] : n \in 0..MaxHistory }
    /\ ch_max_length \in 1..MaxHistory
    /\ ch_appended = << >> /\ ch_adds = 0
SpecHistoryNext == HistoryAdd
SpecHistory == SpecHistoryInit /\ [][SpecHistoryNext]_vars

Spec == SpecRouter

(***************************************************************************)
(* Claims                                                                  *)
(***************************************************************************)
RouterClassified == r_pc \in {"route", "validate", "decide", "refine", "done"}
RouterLowOrNone == r_selected = NoAgent \/ r_confidence < ConfidenceGate
RouterNoDelegation ==
    /\ Count(r_trace, "agent_achat") = 0 /\ r_agent_out = NotCalled
    /\ Count(r_trace, "validate_llm") = 0 /\ r_validation = NoVerdict
    /\ Count(r_trace, "refine_llm") = 0 /\ r_pc \notin {"validate", "decide", "refine"}
RouterOneDirectCall ==
    /\ Count(r_trace, "direct_llm") = 1 /\ r_direct.called
    /\ r_direct.prompt = << "Answer this question: ", r_query >>
RouterDelegatesAtGate ==
    (RouterClassified /\ r_pc # "route" /\ r_selected # NoAgent
        /\ r_confidence = ConfidenceGate)
    => (Count(r_trace, "agent_achat") = 1 /\ ~r_direct.called)

\* C1 as stated: with no agent or a confidence below 0.6 the selected agent is
\* never called, neither validation nor refinement runs, and the answer run
\* returns is the result of one direct LLM call made with the query; with an
\* agent selected at confidence 0.6 exactly, the agent is delegated to.
C1_AsStated ==
    /\ (RouterClassified /\ RouterLowOrNone)
        => /\ RouterNoDelegation
           /\ r_pc = "done" => /\ RouterOneDirectCall
                               /\ r_direct.out.ok
                               /\ r_answer = Returned(r_direct.out.val)
    /\ RouterDelegatesAtGate

\* C1 amended: as above, the answer being the text the direct call returned,
\* or the apology string when the direct call raises.
C1_FallbackNeverDelegates ==
    /\ (RouterClassified /\ RouterLowOrNone)
        => /\ RouterNoDelegation
           /\ r_pc = "done" => /\ RouterOneDirectCall
                               /\ r_answer = IF r_direct.out.ok
                                             THEN Returned(r_direct.out.val)
                                             ELSE Returned(Apology)
    /\ RouterDelegatesAtGate

\* an agent was selected with confidence 0.59 and the run answered with the
\* text of its one direct LLM call
C1_Witness ==
    /\ r_pc = "done" /\ r_selected # NoAgent /\ r_confidence = 59
    /\ r_direct.called /\ r_direct.out.ok /\ r_answer = Returned(r_direct.out.val)

IsAcceptingDefault(v) ==
    /\ {"is_valid", "score", "needs_refinement"} \subseteq v.keys
    /\ v.is_valid = TRUE /\ v.score = 75 /\ v.needs_refinement = FALSE
\* the reply as a whole is a JSON document
WholeReplyIsJson(text) == text = << "L", "R" >> \/ text = << "L", "B", "R" >>
\* obj is what lies between the first '{' and the last '}' of the reply once the
\* code-block markers are taken out
Holds(text, obj) ==
    LET w == SelectSeq(text, NotFence)
    IN  \E i, j \in 1..Len(w) :
          /\ SubSeq(w, i, j) = obj
          /\ \A k \in 1..(i - 1) : w[k] # "L"
          /\ \A k \in (j + 1)..Len(w) : w[k] # "R"

\* C2 as stated: a judge reply that is not valid JSON, whatever its text, gives
\* is_valid = true, score = 0.75, needs_refinement = false.
C2_AsStated ==
    (v_pc = "returned" /\ v_out.ok /\ ~WholeReplyIsJson(v_out.text))
    => IsAcceptingDefault(v_result)

\* C2 amended: _validate_response returns the accepting default exactly when
\* the judge call raises or no JSON object can be read between the first '{'
\* and the last '}' of the reply with its code-block markers removed; a reply
\* that wraps an object in markers or prose yields that object, as the judge
\* wrote it.
C2_DefaultUnlessObjectExtracted ==
    v_pc = "returned" =>
        IF v_out.ok /\ Holds(v_out.text, << "L", "B", "R" >>) THEN v_result = v_out.body
        ELSE IF v_out.ok /\ Holds(v_out.text, << "L", "R" >>) THEN v_result = EmptyDict
        ELSE IsAcceptingDefault(v_result)

\* the reply has braces but is not JSON, and the default verdict came back
C2_Witness ==
    /\ v_pc = "returned" /\ v_out.ok /\ v_out.text = << "L", "P", "R" >>
    /\ IsAcceptingDefault(v_result)
    /\ v_result.reasoning = "Failed to parse validation result"

RouterRefineInvoked == r_pc = "refine" \/ Count(r_trace, "refine_llm") = 1
RouterValidated == Count(r_trace, "validate_llm") = 1 /\ r_pc \in {"refine", "done"}
RouterGateOpen ==
    /\ {"needs_refinement", "score"} \subseteq r_validation.keys
    /\ r_validation.needs_refinement
    /\ r_validation.score < 70

\* C3: in a run whose delegated agent answered, refinement is invoked iff
\* needs_refinement is true and the score is below 0.7, and a run that does not
\* refine returns the agent's response unmodified.
C3_RefinementGate ==
    /\ RouterValidated => (RouterRefineInvoked <=> RouterGateOpen)
    /\ (r_pc = "done" /\ r_agent_out.ok /\ ~RouterRefineInvoked)
        => r_answer = Returned(r_agent_out.val)

\* the part of C3 the code keeps: the gate itself, and the unmodified response
\* whenever the result handling did not raise
C3_GateWhenHandled ==
    /\ RouterValidated => (RouterRefineInvoked <=> RouterGateOpen)
    /\ (r_pc = "done" /\ r_agent_out.ok /\ ~RouterRefineInvoked
            /\ ~(r_verbose /\ "score" \notin r_validation.keys))
        => r_answer = Returned(r_agent_out.val)

\* verbose run, a validation result without "score": the agent answered, no
\* refinement was invoked, and the apology was returned
C3_Witness ==
    /\ r_pc = "done" /\ r_verbose /\ r_agent_out.ok
    /\ Count(r_trace, "validate_llm") = 1 /\ "score" \notin r_validation.keys
    /\ ~RouterRefineInvoked /\ r_answer = Returned(Apology)

ParallelFannedOut == p_pc \in {"join", "integrate", "done"} /\ Len(agent_registry) > 0
AllTasksResolved == \A i \in 1..Len(p_tasks) : p_tasks[i].state = "done"

\* C4: a task whose achat raised is recorded, when the join loop reaches it, as
\* "Error: " + message under its agent's name (a task that returned, as its
\* result); the loop goes on to every other task, and the integration pass
\* runs once over the recorded entries: the run ends with the integrated
\* answer, never with the apology of the outer handler.
C4_FailureRecordedNotFatal ==
    /\ [][ p_next' = p_next + 1 =>
             /\ p_tasks[p_next].state = "done"
             /\ DictHas(p_results', p_tasks[p_next].name)
             /\ DictValue(p_results', p_tasks[p_next].name) =
                  IF p_tasks[p_next].out.ok
                  THEN [prefix |-> "", text |-> p_tasks[p_next].out.val]
                  ELSE [prefix |-> "Error: ", text |-> p_tasks[p_next].out.val]
             /\ \A j \in 1..Len(p_results) :
                  p_results[j][1] # p_tasks[p_next].name
                    => /\ DictHas(p_results', p_results[j][1])
                       /\ DictValue(p_results', p_results[j][1]) = p_results[j][2] ]_vars
    /\ [](ParallelFannedOut /\ p_pc \in {"integrate", "done"}
            => /\ AllTasksResolved /\ p_next = Len(p_tasks) + 1
               /\ \A i \in 1..Len(p_tasks) : DictHas(p_results, p_tasks[i].name))
    /\ [](ParallelFannedOut /\ p_pc = "done"
            => /\ p_integration.called /\ p_integration.given = p_results
               /\ Count(p_trace, "integrate_llm") = 1
               /\ ~p_answer.raised /\ ~p_answer.apology)

\* agents of different names, the first one raised and the second answered, and
\* the integration pass was given both entries
C4_Witness ==
    /\ p_pc = "done" /\ Len(p_tasks) = 2 /\ p_tasks[1].name # p_tasks[2].name
    /\ ~p_tasks[1].out.ok /\ p_tasks[2].out.ok
    /\ p_integration.called
    /\ DictValue(p_integration.given, p_tasks[1].name)
         = [prefix |-> "Error: ", text |-> p_tasks[1].out.val]
    /\ DictValue(p_integration.given, p_tasks[2].name)
         = [prefix |-> "", text |-> p_tasks[2].out.val]

\* C5: over a non-empty registry one task per registered agent exists from the
\* first await on, each created with the run's query and history; no result is
\* awaited and no task has run before all of them exist; the integration call
\* is made only once every task has resolved, in whatever order they did.
C5_FullJoin ==
    /\ ParallelFannedOut
        => /\ Len(p_tasks) = Len(agent_registry)
           /\ \A i \in 1..Len(p_tasks) :
                /\ p_tasks[i].agent = agent_registry[i].id
                /\ p_tasks[i].query = p_query /\ p_tasks[i].history = p_history
           /\ Count(p_trace, "agent_achat") =
                Cardinality({ i \in 1..Len(p_tasks) : p_tasks[i].state = "done" })
    /\ Len(p_tasks) < Len(agent_registry)
        => Count(p_trace, "agent_achat") = 0 /\ Count(p_trace, "await_task") = 0
    /\ (p_pc = "integrate" \/ p_integration.called)
        => /\ AllTasksResolved
           /\ Count(p_trace, "agent_achat") = Len(agent_registry)
           /\ Count(p_trace, "await_task") = Len(agent_registry)

\* the second task resolved before the first, and the integration call was made
C5_Witness ==
    /\ p_pc = "done" /\ Len(p_tasks) = 2 /\ p_integration.called
    /\ p_tasks[2].seq = 1 /\ p_tasks[1].seq = 2

ParallelOneDirectCall ==
    /\ Count(p_trace, "direct_llm") = 1 /\ p_direct.called
    /\ p_direct.prompt = << "Answer this question: ", p_query >>
ParallelNoFanOut ==
    /\ p_tasks = << >> /\ Count(p_trace, "create_tasks") = 0
    /\ Count(p_trace, "agent_achat") = 0
    /\ ~p_integration.called /\ Count(p_trace, "integrate_llm") = 0

\* C6 as stated: on an empty registry no task is created, no integration call
\* is made, and the run returns the result of a single direct LLM call.
C6_AsStated ==
    (Len(agent_registry) = 0 /\ p_pc # "unused")
        => /\ ParallelNoFanOut
           /\ p_pc = "done" => /\ ParallelOneDirectCall
                               /\ p_direct.out.ok
                               /\ p_answer = Text(p_direct.out.val)

\* C6 amended: as above, the run returning the text of the direct call, or the
\* parallel-mode apology carrying the error message when the direct call raises.
C6_EmptyRegistryDirect ==
    (Len(agent_registry) = 0 /\ p_pc # "unused")
        => /\ ParallelNoFanOut
           /\ p_pc = "done" => /\ ParallelOneDirectCall
                               /\ p_answer = IF p_direct.out.ok
                                             THEN Text(p_direct.out.val)
                                             ELSE ParallelApology(p_direct.out.val)

\* the registry is empty and the run returned the text of its direct LLM call
C6_Witness ==
    /\ Len(agent_registry) = 0 /\ p_pc = "done"
    /\ p_direct.called /\ p_direct.out.ok /\ p_answer = Text(p_direct.out.val)

RouterExceptionRaised ==
    \/ r_direct.called /\ ~r_direct.out.ok
    \/ Count(r_trace, "agent_achat") = 1 /\ ~r_agent_out.ok
    \/ /\ Count(r_trace, "validate_llm") = 1 /\ r_pc = "done"
       /\ r_verbose /\ "score" \notin r_validation.keys
ParallelDirectRaised == p_direct.called /\ ~p_direct.out.ok
ParallelFanOutRaised == \E i \in 1..Len(p_tasks) : p_tasks[i].state = "done" /\ ~p_tasks[i].out.ok
ParallelIntegrationRaised == p_integration.called /\ ~p_integration.out.ok
EndsWithAgentEnd(trace) ==
    /\ Len(trace) > 0 /\ trace[Len(trace)] = "on_agent_end"
    /\ Count(trace, "on_agent_end") = 1

\* C7 as stated: neither run nor _run_parallel raises to its caller; whenever
\* an exception was raised inside them (by the fallback LLM call, the delegated
\* agent, the handling of the validation result, the fan-out or the
\* integration) on_agent_end was fired and the apology is the answer.
C7_AsStated ==
    /\ ~r_answer.raised /\ ~p_answer.raised
    /\ (r_pc = "done" /\ RouterExceptionRaised)
        => r_answer = Returned(Apology) /\ EndsWithAgentEnd(r_trace)
    /\ (p_pc = "done" /\ (ParallelDirectRaised \/ ParallelFanOutRaised
                            \/ ParallelIntegrationRaised))
        => p_answer.apology /\ EndsWithAgentEnd(p_trace)

\* C7 amended: neither run nor _run_parallel raises to its caller, and
\* on_agent_end is fired exactly once, last, in every finished call. An
\* exception of the fallback LLM call, the delegated agent or the handling of
\* the validation result (run), or of the direct LLM call (_run_parallel),
\* reaches the outer handler and the apology is returned. An exception of a
\* fanned-out agent or of the integration call never reaches it: the answer
\* is then no apology but what the integration pass returned, which is the
\* integration prompt itself when the integration call raised.
C7_NeverRaises ==
    /\ ~r_answer.raised /\ ~p_answer.raised
    /\ r_pc = "done" => EndsWithAgentEnd(r_trace)
    /\ p_pc = "done" => EndsWithAgentEnd(p_trace)
    /\ (r_pc = "done" /\ RouterExceptionRaised) => r_answer = Returned(Apology)
    /\ (p_pc = "done" /\ ParallelDirectRaised) => p_answer = ParallelApology(p_direct.out.val)
    /\ (p_pc = "done" /\ Len(agent_registry) > 0)
        => p_answer = Text(IF p_integration.out.ok THEN p_integration.out.val
                           ELSE IntegrationPrompt)

\* the delegated agent raised and run returned the apology after on_agent_end
C7_Witness ==
    /\ r_pc = "done" /\ Count(r_trace, "agent_achat") = 1 /\ ~r_agent_out.ok
    /\ r_answer = Returned(Apology) /\ EndsWithAgentEnd(r_trace)

Min(a, b) == IF a < b THEN a ELSE b

\* C8: once a required-tool step has raised, the call is over: nothing more is
\* done on its behalf (no plan, step or summary call) and the step's error is
\* what run raises to the caller.
C8_FailureAborts ==
    pl_failed # ""
        => /\ pl_pc = "done"
           /\ pl_out = [kind |-> "raised", val |-> pl_failed]
           /\ ~pl_after_fail

\* a required-tool step raised and the same call of run went on to plan again
C8_Witness == pl_failed # "" /\ pl_after_fail /\ pl_pc = "loop" /\ pl_attempt = 2

PlanJustBuilt == pl_pc = "loop" /\ pl_step = 1
Kept(data, tools) ==
    { i \in 1..Len(data) : ~data[i].requires_tool \/ data[i].tool_name \in tools }
OnlyRegistered(steps, tools) ==
    \A i \in 1..Len(steps) : steps[i].requires_tool => steps[i].tool_name \in tools

\* C9: the constructed plan holds, in their original order, exactly the steps
\* of the reply that do not require an unregistered tool; so every
\* tool-requiring step of a plan, and every step executed, names a registered
\* tool; and the filter leaves unchanged every plan whose tool-requiring steps
\* name registered tools only.
C9_FilterDropsUnknownTools ==
    /\ PlanJustBuilt
        => /\ { pl_plan[k].description : k \in 1..Len(pl_plan) } = Kept(pl_plan_data, tools_dict)
           /\ \A k \in 1..Len(pl_plan) : pl_plan[k] = pl_plan_data[pl_plan[k].description]
           /\ \A k \in 1..(Len(pl_plan) - 1) :
                pl_plan[k].description < pl_plan[k + 1].description
    /\ OnlyRegistered(pl_plan, tools_dict)
    /\ \A k \in 1..Len(pl_executed) :
         \E j \in 1..Len(pl_plan) : pl_plan[j].description = pl_executed[k].description
    /\ FilterSteps(pl_plan, tools_dict) = pl_plan
    /\ pl_pc = "idle"
        => \A st \in PlanSteps :
             OnlyRegistered(st, tools_dict) => FilterSteps(st, tools_dict) = st

\* of three steps the middle one, which requires an unregistered tool, was
\* dropped; a step that names an unregistered tool without requiring it was kept
C9_Witness ==
    /\ PlanJustBuilt /\ tools_dict = {"calc"}
    /\ Len(pl_plan_data) = 3 /\ Len(pl_plan) = 2
    /\ pl_plan_data[1].requires_tool /\ pl_plan_data[1].tool_name = "calc"
    /\ pl_plan_data[2].requires_tool /\ pl_plan_data[2].tool_name = "ghost"
    /\ ~pl_plan_data[3].requires_tool /\ pl_plan_data[3].tool_name = "ghost"
    /\ pl_plan[1].description = 1 /\ pl_plan[2].description = 3

AllCompleted(n) == \A k \in 1..n : pl_executed[k].state = "completed"

\* C10: the steps begun are the plan's first ones in plan order, each completed
\* before the next is begun, never more than min(N, max_steps) of them; a step
\* beyond the cap ends the loop without an error, and the summary is generated
\* after exactly the first min(N, max_steps) steps when none of them aborts
\* the attempt.
C10_CappedInOrder ==
    /\ [](/\ Len(pl_executed) <= Min(Len(pl_plan), pl_max_steps)
          /\ \A k \in 1..Len(pl_executed) :
               pl_executed[k].description = pl_plan[k].description
          /\ AllCompleted(Len(pl_executed) - 1)
          /\ pl_pc = "step" => /\ pl_step = Len(pl_executed)
                               /\ pl_executed[pl_step].state = "begun"
          /\ (pl_pc = "summary" \/ (pl_pc = "done" /\ pl_out.kind = "text"))
               => /\ Len(pl_executed) = Min(Len(pl_plan), pl_max_steps)
                  /\ AllCompleted(Len(pl_executed)))
    /\ [][ (pl_pc = "loop" /\ pl_step > pl_max_steps)
             => (pl_pc' = "summary" /\ pl_executed' = pl_executed /\ pl_out' = pl_out) ]_vars

\* a plan of three steps under a cap of two: two steps ran, then the summary
C10_Witness ==
    /\ pl_pc = "done" /\ pl_out.kind = "text" /\ pl_failed = ""
    /\ Len(pl_plan) = 3 /\ pl_max_steps = 2
    /\ Len(pl_executed) = 2 /\ AllCompleted(2)

ClassifierNamed(id) ==
    /\ c_out.ok /\ Holds(c_out.text, << "L", "B", "R" >>)
    /\ ClassKeys \subseteq c_out.body.keys /\ c_out.body.selected_agent = id
ClassifierUnparsed ==
    /\ c_out.ok
    /\ ~Holds(c_out.text, << "L", "B", "R" >>) /\ ~Holds(c_out.text, << "L", "R" >>)

\* C11: over a non-empty registry _classify_request always returns a registered
\* agent; when the classifier names an id that is not registered, or its reply
\* holds no JSON that can be parsed, the agent is a registry member (the first
\* one), the confidence is 0.5, and the note tells which of the two happened;
\* a registered id the classifier names is returned with its confidence.
C11_ClassifyFallback ==
    (c_pc = "returned" /\ Len(agent_registry) > 0) =>
        /\ RegistryHas(agent_registry, c_result.agent)
        /\ (\E id \in AgentIds \cup {UnknownId} :
              ClassifierNamed(id) /\ ~RegistryHas(agent_registry, id))
            => /\ c_result.agent = agent_registry[1].id
               /\ c_result.confidence = 50
               /\ c_result.note = "not found, using default"
        /\ ClassifierUnparsed
            => /\ c_result.agent = agent_registry[1].id
               /\ c_result.confidence = 50
               /\ c_result.note \in {"Error in classification", "Exception in classification"}
        /\ \A id \in AgentIds :
             (ClassifierNamed(id) /\ RegistryHas(agent_registry, id))
                => c_result.agent = id /\ c_result.confidence = c_out.body.confidence

\* the classifier named an unregistered id with confidence 0.9 inside a fenced
\* reply, and the first registered agent came back with 0.5
C11_Witness ==
    /\ c_pc = "returned" /\ Len(agent_registry) = 2
    /\ c_out.ok /\ c_out.text = << "FJ", "L", "B", "R", "F" >>
    /\ ClassKeys \subseteq c_out.body.keys
    /\ c_out.body.selected_agent = UnknownId /\ c_out.body.confidence = 90
    /\ c_result = [agent |-> agent_registry[1].id, confidence |-> 50,
                   note |-> "not found, using default"]

RouterRefinementFailed == Count(r_trace, "refine_llm") = 1 /\ ~r_refine_out.out.ok

\* C12: when refinement was triggered and its call raised, run returns the
\* unrefined response: the text the delegated agent returned.
C12_RefineFailureKeepsResponse ==
    (r_pc = "done" /\ RouterRefinementFailed) => r_answer = Returned(r_agent_out.val)

\* the refinement call raised and run returned the refinement prompt it had
\* sent, not the agent's text
C12_Witness ==
    /\ r_pc = "done" /\ RouterRefinementFailed
    /\ r_agent_out.ok /\ r_agent_out.val = "r1"
    /\ r_validation.needs_refinement /\ r_validation.score = 69
    /\ r_answer = Returned(RefinementPrompt)

ToolFailed ==
    \/ t_name \notin tools_dict
    \/ t_args # NoReply /\ ( IF ~t_args.ok THEN TRUE
                               ELSE IF ~Holds(t_args.text, << "L", "B", "R" >>) THEN TRUE
                               ELSE "arguments" \notin t_args.body.keys )
    \/ t_tool # NotCalled /\ ~t_tool.ok

\* C13: a call of _execute_tool with requires_tool true ends with an exception
\* whenever anything failed (the name is not in tools_dict, the arguments
\* reply holds no JSON object with "arguments", or the tool raised); with
\* requires_tool false it returns nothing, raises nothing and calls nothing.
C13_RequiredFailuresPropagate ==
    t_pc = "returned" =>
        /\ (t_required /\ ToolFailed) => t_result.kind = "raised"
        /\ ~t_required => /\ t_result = ReturnsNone
                          /\ t_args = NoReply /\ t_tool = NotCalled

\* a required tool whose name tools_dict does not hold: nothing was called,
\* nothing was returned and nothing was raised
C13_Witness ==
    /\ t_pc = "returned" /\ t_required /\ t_name = "ghost" /\ tools_dict = {"calc"}
    /\ t_args = NoReply /\ t_tool = NotCalled /\ t_result = ReturnsNone

\* the failures _execute_tool does report for a required tool: those that
\* happen after the name resolved
C13_ResolvedFailuresPropagate ==
    (t_pc = "returned" /\ t_required /\ t_name \in tools_dict /\ ToolFailed)
        => t_result.kind = "raised"

OutputParserDone == w_pc = "done" /\ w_op.body = "_output_parser"
\* the attempt parsed a schema-guided reply and json.loads could not decode it
DecodeFailed(o) ==
    /\ w_op.structured /\ o.reply.ok /\ o.reply # BaseModelReply
    /\ Find(SelectSeq(o.reply.text, NotFence), "L") # 0
    /\ RFind(SelectSeq(o.reply.text, NotFence), "R") # 0
    /\ ~Holds(o.reply.text, << "L", "B", "R" >>) /\ ~Holds(o.reply.text, << "L", "R" >>)

\* C14: _output_parser always returns a text; a JSON-decoding failure of the
\* parse is followed by another attempt until 3 attempts were made, and then
\* a text is returned.
C14_ParserRetriesThenReturns ==
    OutputParserDone =>
        /\ w_result.kind = "value"
        /\ DecodeFailed(w_log[Len(w_log)]) => Len(w_log) = 3

\* the schema-guided reply had braces around prose: one attempt was made, no
\* sleep, and the prompt itself came back
C14_Witness ==
    /\ OutputParserDone /\ w_op.structured
    /\ Len(w_log) = 1 /\ w_log[1].reply.text = << "L", "P", "R" >> /\ DecodeFailed(w_log[1])
    /\ w_waits = << >> /\ w_result = ReturnsValue(Prompt)

IsPolicyCall(policy) == w_pc # "idle" /\ w_op.policy = policy /\ w_op.body = "any"
Failed(o) == o.res.kind # "value"
\* the bookkeeping of the attempts made so far, whatever the policy
AttemptsInStep ==
    /\ w_attempt \in 1..3 /\ Len(w_log) <= 3
    /\ \A k \in 1..(Len(w_log) - 1) : Failed(w_log[k])
    /\ w_pc = "attempt" => Len(w_log) = w_attempt - 1 /\ Len(w_waits) = w_attempt - 1
    /\ w_pc = "wait" => /\ Len(w_log) = w_attempt /\ Len(w_waits) = w_attempt
                        /\ w_attempt < 3 /\ Failed(w_log[w_attempt])
    /\ w_pc = "done" => /\ Len(w_log) = w_attempt /\ Len(w_waits) = w_attempt - 1
                        /\ w_result = w_log[w_attempt].res
    /\ \A k \in 1..Len(w_waits) : w_waits[k] = k

\* C15: under retry_on_error an operation is attempted at most 3 times; the
\* first attempt that succeeds ends the call with its value; every failed
\* attempt but the third is followed by a sleep (1s after the first, 2s after
\* the second) and then by the next attempt; the third failure is re-raised.
C15_RetryOnError ==
    /\ [](IsPolicyCall("retry_on_error")
            => /\ AttemptsInStep
               /\ (w_pc = "done" /\ Failed(w_log[Len(w_log)])) => Len(w_log) = 3)
    /\ [][ (IsPolicyCall("retry_on_error") /\ w_pc = "attempt")
             => LET o == w_log'[w_attempt]
                IN  IF Failed(o) /\ w_attempt < 3 THEN w_pc' = "wait" ELSE w_pc' = "done" ]_vars
    /\ [][ w_pc = "wait" => (w_pc' = "attempt" /\ w_attempt' = w_attempt + 1) ]_vars

\* two failures, sleeps of 1s and 2s, and a third attempt whose value is returned
C15_Witness ==
    /\ IsPolicyCall("retry_on_error") /\ w_pc = "done" /\ Len(w_log) = 3
    /\ w_log[1].res.kind = JsonError /\ w_log[2].res.kind = OtherError
    /\ w_waits = << 1, 2 >> /\ w_result = ReturnsValue("t1")

\* C16: under retry_on_json_parse_error only a JSON-decoding failure is
\* followed by another attempt, with at most 3 attempts and the third failure
\* re-raised; any other exception ends the call at the attempt that raised
\* it, the first one included.
C16_RetryOnJsonOnly ==
    /\ [](IsPolicyCall("retry_on_json_parse_error")
            => /\ AttemptsInStep
               /\ \A k \in 1..(Len(w_log) - 1) : w_log[k].res.kind = JsonError
               /\ w_pc = "wait" => w_log[w_attempt].res.kind = JsonError
               /\ (w_pc = "done" /\ w_result.kind = JsonError) => Len(w_log) = 3)
    /\ [][ (IsPolicyCall("retry_on_json_parse_error") /\ w_pc = "attempt")
             => LET o == w_log'[w_attempt]
                IN  IF o.res.kind = JsonError /\ w_attempt < 3
                    THEN w_pc' = "wait"
                    ELSE w_pc' = "done" /\ w_result' = o.res ]_vars

\* the first attempt raised another kind of exception: it reached the caller
\* with no sleep and no second attempt
C16_Witness ==
    /\ IsPolicyCall("retry_on_json_parse_error") /\ w_pc = "done"
    /\ Len(w_log) = 1 /\ w_waits = << >>
    /\ w_result = [kind |-> OtherError, val |-> "e1"]

RECURSIVE Concat(_)
Concat(chunks) == IF chunks = << >> THEN << >> ELSE Head(chunks) \o Concat(Tail(chunks))
\* no chunk is empty and every chunk but the last has k characters
WellSized(chunks, k) ==
    /\ \A j \in 1..Len(chunks) : Len(chunks[j]) \in 1..k
    /\ \A j \in 1..(Len(chunks) - 1) : Len(chunks[j]) = k
Streaming == s_pc \in {"loop", "done"} /\ s_out # "raised" /\ s_agent # "ParallelAgent"

\* C17: the chunks astream_chat yields are the answer cut, in order, into
\* pieces of 5 characters with a shorter last piece: concatenated they are the
\* answer run returned, none is empty, and an empty answer yields none. The
\* same loop run with any chunk size k from 1 to len+1 gives the string back.
C17_ChunksRoundTrip ==
    /\ Streaming
        => /\ Concat(s_chunks) = SubSeq(s_answer, 1, IF s_i < Len(s_answer) THEN s_i
                                                     ELSE Len(s_answer))
           /\ WellSized(s_chunks, 5)
           /\ s_i < Len(s_answer) => \A j \in 1..Len(s_chunks) : Len(s_chunks[j]) = 5
    /\ (Streaming /\ s_pc = "done")
        => /\ Concat(s_chunks) = s_answer
           /\ s_answer = << >> <=> s_chunks = << >>
    /\ (Streaming /\ s_pc = "loop" /\ s_i = 0)
        => \A k \in 1..(Len(s_answer) + 1) :
             /\ Concat(SplitFrom(s_answer, 0, k)) = s_answer
             /\ WellSized(SplitFrom(s_answer, 0, k), k)

\* an answer of 11 characters came out as two chunks of 5 and one of 1
C17_Witness ==
    /\ s_pc = "done" /\ s_agent = "RouterAgent" /\ Len(s_answer) = 11
    /\ s_answer[1] = "a" /\ s_answer[2] = "b" /\ s_answer[11] = "b"
    /\ Len(s_chunks) = 3 /\ Len(s_chunks[1]) = 5 /\ Len(s_chunks[2]) = 5
    /\ s_chunks[3] = << "b" >>

OneStartOneEnd(trace) ==
    /\ Count(trace, "on_agent_start") = 1 /\ Count(trace, "on_agent_end") = 1
    /\ trace[1] = "on_agent_start" /\ trace[Len(trace)] = "on_agent_end"

\* C18: a finished call of achat or astream_chat fired on_agent_start once,
\* before anything else it did, and on_agent_end once, after everything else.
C18_HooksOncePerCall ==
    /\ r_pc = "done" => OneStartOneEnd(r_trace)
    /\ p_pc = "done" => OneStartOneEnd(p_trace)
    /\ pl_pc = "done" => OneStartOneEnd(pl_trace)
    /\ s_pc = "done" => OneStartOneEnd(s_trace)

\* RouterAgent.astream_chat ran to its end: two start hooks and two end hooks
\* were fired, one pair by astream_chat and one by the run it awaited
C18_Witness ==
    /\ s_pc = "done" /\ s_agent = "RouterAgent" /\ s_out = "exhausted"
    /\ Count(s_trace, "on_agent_start") = 2 /\ Count(s_trace, "on_agent_end") = 2
    /\ s_trace[2] = "on_agent_start" /\ s_trace[4] = "on_agent_end"

Entries(id) == { i \in 1..Len(agent_registry) : agent_registry[i].id = id }

\* C19: the registry holds, for each id, exactly the agent last registered
\* under it and not unregistered since, and nothing for any other id; a call
\* that changes nothing of that (registering the agent already held,
\* unregistering an absent id) leaves the registry as it was, a registration
\* under a held id keeps the number of entries, and no step of a Routing or
\* Parallel run changes the registry.
C19_RegistryLastWins ==
    /\ [](\A id \in RegistryIds :
            /\ Cardinality(Entries(id)) = Cardinality(h_last[id])
            /\ \A i \in Entries(id) : agent_registry[i] \in h_last[id])
    /\ [][ h_last' = h_last => agent_registry' = agent_registry ]_vars
    /\ [][ (\A id \in RegistryIds : h_last[id] = {} <=> h_last'[id] = {})
             => Len(agent_registry') = Len(agent_registry) ]_vars
    /\ [][ (rvars' # rvars \/ pvars' # pvars) => agent_registry' = agent_registry ]_vars

\* id 1 holds the agent registered under it last, id 2 holds none, and a
\* Routing run over that registry delegated and ended
C19_Witness ==
    /\ agent_registry = << [id |-> 1, name |-> "support"] >>
    /\ h_last[1] = {[id |-> 1, name |-> "support"]} /\ h_last[2] = {}
    /\ r_pc = "done" /\ Count(r_trace, "agent_achat") = 1

\* the position of a call in the run's trace, 0 when it was not made
Pos(ev) ==
    IF Count(r_trace, ev) = 0 THEN 0
    ELSE CHOOSE i \in 1..Len(r_trace) : r_trace[i] = ev

\* C20: in a Routing run each phase happens at most once and in this order:
\* the classification call, the achat of the one selected registry agent, the
\* validation call, the refinement call; a phase is entered only after the one
\* before it has returned, and a run that answers directly invokes no agent.
C20_PhasesInOrder ==
    /\ \A ev \in {"on_agent_start", "classify_llm", "direct_llm", "agent_achat",
                  "validate_llm", "refine_llm", "on_agent_end"} : Count(r_trace, ev) <= 1
    /\ Pos("agent_achat") # 0
        => /\ 0 < Pos("classify_llm") /\ Pos("classify_llm") < Pos("agent_achat")
           /\ RegistryHas(agent_registry, r_selected)
           /\ Pos("direct_llm") = 0
    /\ Pos("validate_llm") # 0
        => /\ 0 < Pos("agent_achat") /\ Pos("agent_achat") < Pos("validate_llm")
           /\ r_agent_out.ok
    /\ (Pos("refine_llm") # 0 \/ r_pc = "refine")
        => /\ 0 < Pos("validate_llm") /\ r_validation # NoVerdict
           /\ Pos("refine_llm") # 0 => Pos("validate_llm") < Pos("refine_llm")
    /\ r_pc = "validate" => Pos("agent_achat") # 0 /\ Pos("validate_llm") = 0
    /\ r_pc = "route" => Pos("agent_achat") = 0

\* a run that went through all four phases
C20_Witness ==
    /\ r_pc = "done"
    /\ r_trace = << "on_agent_start", "classify_llm", "agent_achat", "validate_llm",
                    "refine_llm", "on_agent_end" >>

\* the steps of this attempt that completed without leaving a result
NoResult(k) == \A j \in 1..Len(pl_results) : pl_results[j].step # pl_executed[k].description
\* the llm.achat of a non-tool step raised in the attempt that ended the call
LLMStepRaised ==
    \E k \in 1..Len(pl_executed) :
        /\ pl_executed[k].state = "completed" /\ ~pl_plan[k].requires_tool /\ NoResult(k)
\* the LLM call of the summary raised: _output_parser gave the prompt back
SummaryRaised == Count(pl_trace, "summary_llm") = 1 /\ pl_out.val = SummaryPrompt

\* C21: a call in which a step's LLM call, a required tool or the summary call
\* raised ends with an exception raised to the caller, never with a text.
C21_EveryErrorRaises ==
    (pl_pc = "done" /\ (LLMStepRaised \/ SummaryRaised \/ pl_failed # ""))
        => pl_out.kind = "raised"

\* first attempt, no tool step: the LLM call of the only step raised, the
\* summary call raised too, and the call returned the summary prompt as its text
C21_Witness ==
    /\ pl_pc = "done" /\ pl_attempt = 1 /\ pl_failed = ""
    /\ Len(pl_plan) = 1 /\ pl_max_steps = 1 /\ LLMStepRaised /\ SummaryRaised
    /\ pl_results = << >> /\ pl_out = [kind |-> "text", val |-> SummaryPrompt]

ReachedSummary == pl_pc = "summary" \/ (pl_pc = "done" /\ pl_out.kind = "text")

\* C22: when the summary is reached, results holds one entry per executed
\* step, in step order, and the summary call is made once, after the loop.
C22_OneResultPerStep ==
    ReachedSummary
        => /\ Len(pl_results) = Len(pl_executed)
           /\ \A k \in 1..Len(pl_results) : pl_results[k].step = pl_executed[k].description
           /\ Count(pl_trace, "summary_llm") = IF pl_pc = "done" THEN 1 ELSE 0

\* two non-tool steps were executed, the LLM call of the first raised, and the
\* summary was generated from a list that holds the second step's answer only
C22_Witness ==
    /\ pl_pc = "done" /\ pl_out.kind = "text" /\ Len(pl_executed) = 2
    /\ ~pl_plan[1].requires_tool /\ ~pl_plan[2].requires_tool
    /\ pl_results = << [step |-> pl_plan[2].description, val |-> "llm answer"] >>
    /\ Count(pl_trace, "summary_llm") = 1

\* what the code keeps of C22: the entries of results belong to executed steps,
\* at most one per step and in step order, and the summary call is made once
C22_ResultsInStepOrder ==
    /\ \A j \in 1..Len(pl_results) :
         \E k \in 1..Len(pl_executed) : pl_executed[k].description = pl_results[j].step
    /\ \A i, j \in 1..Len(pl_results) : i < j => pl_results[i].step < pl_results[j].step
    /\ ReachedSummary => Count(pl_trace, "summary_llm") = IF pl_pc = "done" THEN 1 ELSE 0

\* C23: when the classification call raises, _classify_request makes it
\* again, 3 calls in all, before it falls back to the default agent.
C23_ClassificationRetried ==
    (c_pc = "returned" /\ Len(agent_registry) > 0 /\ ~c_out.ok) => c_calls = MaxAttempts

\* the classification call raised: it was made once, and the first registered
\* agent came back at once with confidence 0.5
C23_Witness ==
    /\ c_pc = "returned" /\ Len(agent_registry) = 2 /\ c_out = LLMRaise("e1")
    /\ c_calls = 1
    /\ c_result = [agent |-> agent_registry[1].id, confidence |-> FallbackConfidence,
                   note |-> "Exception in classification"]

\* C24: each chunk astream_chat yields was passed to on_llm_new_token once,
\* just before its yield, so the callback sees the chunks in the order of
\* their yields.
C24_TokenCallbackPerChunk ==
    (s_agent \in {"RouterAgent", "PlanningAgent"})
        => /\ Len(s_events) = 2 * Len(s_chunks)
           /\ \A k \in 1..Len(s_chunks) :
                /\ s_events[2 * k - 1] = << "on_llm_new_token", s_chunks[k] >>
                /\ s_events[2 * k] = << "yield", s_chunks[k] >>

\* PlanningAgent.astream_chat yielded three chunks to its end and the callback
\* was never called
C24_Witness ==
    /\ s_pc = "done" /\ s_agent = "PlanningAgent" /\ s_out = "exhausted"
    /\ Len(s_chunks) = 3
    /\ s_events = << << "yield", s_chunks[1] >>, << "yield", s_chunks[2] >>,
                     << "yield", s_chunks[3] >> >>

\* what the code keeps of C24: RouterAgent.astream_chat does so
C24_RouterTokenCallbackPerChunk ==
    s_agent = "RouterAgent"
        => /\ Len(s_events) = 2 * Len(s_chunks)
           /\ \A k \in 1..Len(s_chunks) :
                /\ s_events[2 * k - 1] = << "on_llm_new_token", s_chunks[k] >>
                /\ s_events[2 * k] = << "yield", s_chunks[k] >>

\* C25: a finished call of ParallelAgent.astream_chat has made the run whose
\* answer achat returns, has yielded chunks until they were exhausted, and the
\* chunks concatenated are that answer.
C25_ParallelStreamsItsAnswer ==
    (s_agent = "ParallelAgent" /\ s_pc = "done")
        => /\ Count(s_trace, "run") = 1
           /\ s_out = "exhausted"
           /\ Concat(s_chunks) = s_answer

\* the call ended at once with None: no run was made, nothing can be iterated
\* and no chunk was yielded
C25_Witness ==
    /\ s_agent = "ParallelAgent" /\ s_pc = "done" /\ s_out = "None"
    /\ s_trace = << >> /\ s_chunks = << >> /\ s_events = << >>

\* the reply holds a JSON object with the three keys that names id
Names(out, id) ==
    /\ out.ok /\ Holds(out.text, << "L", "B", "R" >>)
    /\ ClassKeys \subseteq out.body.keys /\ out.body.selected_agent = id
\* the classification call was made and named no registered agent: it raised,
\* its reply held no such object, or the object named an unknown id
ClassifiedByFallback ==
    /\ Count(r_trace, "classify_llm") = 1
    /\ ~\E id \in AgentIds : Names(r_class_out, id) /\ RegistryHas(agent_registry, id)

\* C26: a run whose classification fell back has the first registered agent
\* at confidence 0.5, never calls an agent, and answers through the one direct
\* LLM call; a run that calls achat calls it on the registered agent the
\* classifier named, at the confidence it gave, which is 0.6 or more.
C26_FallbackAgentNeverRuns ==
    /\ ClassifiedByFallback
        => /\ r_selected = agent_registry[1].id /\ r_confidence = FallbackConfidence
           /\ RouterNoDelegation
           /\ r_pc = "done" => RouterOneDirectCall
    /\ Count(r_trace, "agent_achat") = 1
        => /\ Names(r_class_out, r_selected) /\ RegistryHas(agent_registry, r_selected)
           /\ r_confidence = r_class_out.body.confidence
           /\ r_confidence >= ConfidenceGate

\* the classifier named an unknown id with confidence 0.9: the first agent of
\* two came back, and the run ended on the direct LLM call without calling it
C26_Witness ==
    /\ r_pc = "done" /\ Len(agent_registry) = 2
    /\ Names(r_class_out, UnknownId) /\ r_class_out.body.confidence = 90
    /\ r_selected = agent_registry[1].id /\ r_confidence = FallbackConfidence
    /\ Count(r_trace, "agent_achat") = 0 /\ r_direct.called /\ r_direct.out.ok
    /\ r_answer = Returned(r_direct.out.val)

\* C27: once the join loop is over, the results map holds one entry per
\* registered agent, in registry order, each with that agent's own outcome,
\* and this is the map the integration pass is given.
C27_OneEntryPerAgent ==
    /\ (ParallelFannedOut /\ p_pc \in {"integrate", "done"})
        => /\ Len(p_results) = Len(agent_registry)
           /\ \A i \in 1..Len(p_results) :
                p_results[i] = << agent_registry[i].name, Recorded(p_tasks[i].out) >>
    /\ p_integration.called => p_integration.given = p_results

\* two agents registered under different ids carry the same name; the first
\* answered r1 and the second r2, and the integration pass was given a single
\* entry, holding r2
C27_Witness ==
    /\ p_pc = "done" /\ Len(agent_registry) = 2
    /\ agent_registry[1].id # agent_registry[2].id
    /\ agent_registry[1].name = "billing" /\ agent_registry[2].name = "billing"
    /\ p_tasks[1].out = Ok("r1") /\ p_tasks[2].out = Ok("r2")
    /\ p_integration.called /\ p_integration.given = << << "billing", Value("r2") >> >>

\* what the code keeps of C27: over agents of pairwise distinct names
C27_OneEntryPerName ==
    (ParallelFannedOut /\ p_pc \in {"integrate", "done"}
        /\ \A i, j \in 1..Len(agent_registry) :
             i # j => agent_registry[i].name # agent_registry[j].name)
        => /\ Len(p_results) = Len(agent_registry)
           /\ \A i \in 1..Len(p_results) :
                p_results[i] = << agent_registry[i].name, Recorded(p_tasks[i].out) >>

DistinctNames == \A i, j \in 1..Len(n_names) : i # j => n_names[i] # n_names[j]

\* C28: agents constructed from pairwise distinct names have pairwise distinct
\* ids: after registering them the registry holds one entry per agent, each
\* under the id derived from its name.
C28_DistinctNamesDistinctIds ==
    DistinctNames
        => /\ Len(agent_registry) = Len(n_names)
           /\ \A i \in 1..Len(n_names) :
                agent_registry[i] = [id |-> GenerateIdFromName(n_names[i]), name |-> n_names[i]]

\* "a1" and then "A" were registered: both have the id "a", and the registry
\* holds one agent, the second
C28_Witness ==
    /\ n_names = << << "a", "1" >>, << "A" >> >>
    /\ agent_registry = << [id |-> << "a" >>, name |-> << "A" >>] >>

\* what the code keeps of C28: the registry holds one entry per derived id, and
\* it is the agent constructed last among those that share the id
C28_OneEntryPerDerivedId ==
    /\ DistinctIds(agent_registry)
    /\ { agent_registry[i].id : i \in 1..Len(agent_registry) }
         = { GenerateIdFromName(n_names[k]) : k \in 1..Len(n_names) }
    /\ \A i \in 1..Len(agent_registry) :
         \E k \in 1..Len(n_names) :
            /\ agent_registry[i] = [id |-> GenerateIdFromName(n_names[k]), name |-> n_names[k]]
            /\ \A m \in (k + 1)..Len(n_names) :
                 GenerateIdFromName(n_names[m]) # agent_registry[i].id

\* base instructions concatenated with the agent's own prompt, if it has one
OwnPrompt(agent) ==
    IF agent.prompt = "" THEN << "base" >>
    ELSE << "Base prompt: ", "base", "\nUser prompt:", agent.prompt >>
Called(i) == b_messages[i] # << >>

\* C29: whatever agents were constructed, the system prompt an agent's LLM
\* calls carry is the base instructions with that agent's own prompt: the one
\* its LLM capability holds now, and the one its last call carried.
C29_OwnPromptOnly ==
    \A i \in 1..Len(b_agents) :
        /\ llm_system_prompt[b_agents[i].llm] = OwnPrompt(b_agents[i])
        /\ Called(i) => b_messages[i][1] = [role |-> "system",
                                             content |-> OwnPrompt(b_agents[i])]

\* an agent with prompt pA, then one with prompt pB, were constructed on the
\* same capability; the first agent's call carried both prompts
C29_Witness ==
    /\ Len(b_agents) = 2 /\ b_agents[1].llm = b_agents[2].llm
    /\ b_agents[1].prompt = "pA" /\ b_agents[2].prompt = "pB"
    /\ b_agents[1].system_prompt = << "Base prompt: ", "base", "\nUser prompt:", "pA" >>
    /\ Called(1)
    /\ b_messages[1][1].content = << "Base prompt: ", "Base prompt: ", "base",
                                     "\nUser prompt:", "pA", "\nUser prompt:", "pB" >>

\* the prompt a capability holds after construction number n: the base with
\* the prompts given to the agents built on it, in construction order
RECURSIVE PromptAfter(_, _)
PromptAfter(l, n) ==
    IF n = 0 THEN << "base" >>
    ELSE IF b_agents[n].llm = l /\ b_agents[n].prompt # ""
    THEN << "Base prompt: " >> \o PromptAfter(l, n - 1)
            \o << "\nUser prompt:", b_agents[n].prompt >>
    ELSE PromptAfter(l, n - 1)

\* what the code keeps of C29: a capability accumulates the prompts of all the
\* agents built on it, agents built on another capability leave it alone, and
\* self.system_prompt of an agent is the capability's prompt at its construction
C29_PromptsAccumulate ==
    /\ \A l \in LlmIds : llm_system_prompt[l] = PromptAfter(l, Len(b_agents))
    /\ \A i \in 1..Len(b_agents) :
         b_agents[i].system_prompt = PromptAfter(b_agents[i].llm, i)

\* the last n elements of a list that has at least n
Last(list, n) == SubSeq(list, Len(list) - n + 1, Len(list))
KeepsFirstAndRecent ==
    /\ Len(ch_messages) <= ch_max_length
    /\ ch_messages[1] = ch_appended[1]
    /\ Len(ch_messages) <= Len(ch_appended)
    /\ Tail(ch_messages) = Last(ch_appended, Len(ch_messages) - 1)

\* C30: after an add the history holds at most max_length messages; its first
\* message is the first one of the list the message was appended to, and the
\* others are the last ones of that list, in their order.
C30_BoundedKeepsFirstAndRecent ==
    (ch_adds > 0 /\ ch_max_length >= 1) => KeepsFirstAndRecent

\* max_length is 1 and the history held one message: after one add it holds
\* three, the first one twice
C30_Witness ==
    /\ ch_max_length = 1 /\ ch_adds = 1
    /\ ch_appended = << "m1", "m2" >> /\ ch_messages = << "m1", "m1", "m2" >>

\* what the code keeps of C30: the same for every max_length of 2 or more, the
\* history then holding exactly max_length messages once the cut is made
C30_BoundedFromTwo ==
    (ch_adds > 0 /\ ch_max_length >= 2)
        => /\ KeepsFirstAndRecent
           /\ Len(ch_appended) > ch_max_length => Len(ch_messages) = ch_max_length
====
